---- MODULE Spec2Model ----
(***************************************************************************)
(* A model of the tracking daemon of rca-trackhome:                        *)
(*   - Tracker (scripts/track_publish.py) over the Pozyx backend           *)
(*     (trkpy/track.py),                                                   *)
(*   - the daemon's state machine, its main loop, its IPC listener thread  *)
(*     and its cloud callback (scripts/run_tracker_daemon.py),             *)
(*   - the HAT manager process (scripts/run_hat_manager.py).               *)
(***************************************************************************)
EXTENDS Integers, Sequences, FiniteSets, TLC

(***************************************************************************)
(* Bounds of the model.                                                    *)
(***************************************************************************)
\* Number of Tracker.loop calls a behaviour may make.
MaxLoops == 3
\* Number of Tracker.loop calls run_track_loop may make.
MaxIters == 2
\* Number of update_state calls of a behaviour of update_state on its own.
MaxCalls == 2
\* Number of button presses.
MaxButtons == 1
\* Number of KeyboardInterrupts.
MaxInterrupts == 1
\* Number of times each daemon process of the lock model is started.
MaxStarts == 2
\* Longest measured duration of an iteration of run_track_loop.
MaxElapsed == 2
\* Number of messages delivered to CloudCollector.on_message.
MaxMsgs == 2
\* Number of CloudCollector.flush calls.
MaxFlushes == 2

(***************************************************************************)
(* Hexadecimal identifiers: int(s, 16) of track_publish.py:176-179.        *)
(* A string is a sequence of one-character strings.                        *)
(***************************************************************************)
HexChars == {"0", "1", "2", "3", "4", "5", "6", "7", "8", "9",
             "a", "b", "c", "d", "e", "f", "A", "B", "C", "D", "E", "F"}

DigitVal(c) ==
    CASE c = "0" -> 0 [] c = "1" -> 1 [] c = "2" -> 2 [] c = "3" -> 3
      [] c = "4" -> 4 [] c = "5" -> 5 [] c = "6" -> 6 [] c = "7" -> 7
      [] c = "8" -> 8 [] c = "9" -> 9
      [] c \in {"a", "A"} -> 10 [] c \in {"b", "B"} -> 11
      [] c \in {"c", "C"} -> 12 [] c \in {"d", "D"} -> 13
      [] c \in {"e", "E"} -> 14 [] c \in {"f", "F"} -> 15

\* The digits of s once an optional 0x / 0X prefix is removed.
HexBody(s) ==
    IF Len(s) >= 2 /\ s[1] = "0" /\ s[2] \in {"x", "X"}
    THEN SubSeq(s, 3, Len(s))
    ELSE s

RECURSIVE HexValue(_)
HexValue(d) ==
    IF Len(d) = 0 THEN 0
    ELSE 16 * HexValue(SubSeq(d, 1, Len(d) - 1)) + DigitVal(d[Len(d)])

\* int(s, 16) raises ValueError unless the body is a non-empty run of digits.
IsHex(s) ==
    LET d == HexBody(s)
    IN  Len(d) > 0 /\ \A i \in 1..Len(d) : d[i] \in HexChars

int16(s) == HexValue(HexBody(s))

(***************************************************************************)
(* Profile documents (the JSON text received on the config topic, or the   *)
(* profile file read by init_tracker).  json: json.loads accepts the text; *)
(* keys: the keys present; tags: the entries of the 'tags' list;           *)
(* anchors: the items of the 'anchors' object, each <<key, xyz>>.          *)
(* NoDoc stands for None.                                                  *)
(***************************************************************************)
Str0x1 == <<"0", "x", "1">>
Str0x2 == <<"0", "X", "2">>
Str0xA == <<"0", "x", "a">>
StrB   == <<"B">>
StrBad == <<"0", "x", "g">>

AllKeys == {"anchors", "tags", "interval"}

NoDoc == [id |-> "None", json |-> FALSE, keys |-> {}, tags |-> {}, anchors |-> {}, interval |-> 0]

DocA ==
    [id |-> "A", json |-> TRUE, keys |-> AllKeys, tags |-> {Str0x1, Str0x2},
     anchors |-> {<<Str0xA, <<0, 0, 1>> >>}, interval |-> 1]

DocB ==
    [id |-> "B", json |-> TRUE, keys |-> AllKeys, tags |-> {Str0x2},
     anchors |-> {<<Str0xA, <<5, 0, 1>> >>, <<StrB, <<0, 5, 1>> >>},
     interval |-> 2]

DocC ==
    [id |-> "C", json |-> TRUE, keys |-> AllKeys, tags |-> {Str0x1},
     anchors |-> {<<Str0xA, <<1, 1, 1>> >>}, interval |-> 3]

ValidDocs == {DocA, DocB}

\* Documents the daemon does not check before it uses them.
DocNotJson == [DocB EXCEPT !.id = "NotJson", !.json = FALSE]
DocNoInterval == [DocB EXCEPT !.id = "NoInterval", !.keys = {"anchors", "tags"}]
DocNoTags == [DocB EXCEPT !.id = "NoTags", !.keys = {"anchors", "interval"}]
DocNoAnchors == [DocB EXCEPT !.id = "NoAnchors", !.keys = {"tags", "interval"}]
DocBadTag == [DocB EXCEPT !.id = "BadTag", !.tags = {Str0x2, StrBad}]
DocBadAnchor == [DocB EXCEPT !.id = "BadAnchor", !.anchors = {<<StrBad, <<0, 5, 1>> >>}]

InvalidDocs == {DocNotJson, DocNoInterval, DocNoTags, DocNoAnchors, DocBadTag, DocBadAnchor}

\* The tag and anchor ids the documents of the model can name.
TagIds == {1, 2}

(***************************************************************************)
(* State.                                                                  *)
(***************************************************************************)
VARIABLES
    \* Tracker object (track_publish.py:51-64)
    tags,           \* self.tags: set of tag ids
    anchors,        \* self.anchors: set of <<anchor id, xyz>>
    reconf,         \* self._tags_to_reconfigure
    loop_cnt,       \* self.loop_cnt
    check_period,   \* self.check_period
    pos_dim,        \* self.pos_dim: 2 or 3
    \* Positioning backend: the device list stored on each tag
    devlist,
    \* The Tracker call in progress
    op,             \* "none", "loop" or "reload"
    tpc,            \* position in the call
    check_only,     \* argument of loop
    rdoc,           \* argument of reload_devices
    order,          \* iteration order of self.tags in this call
    idx,            \* position in order
    responses,      \* responses of this loop call: tag -> "none"/"ok"/"fail"
    \* What the call has done so far
    telem,          \* tags with a telemetry record (logger.info)
    confd,          \* tags configure_tag was called for
    errlog,         \* tags whose positioning error was logged
    pushfail,       \* tags whose set_anchors_manual reported failure
    cfglog,         \* for each tag, what its latest configure_tag calls pushed
    pushed,         \* tags whose last configure_tag called set_anchors_manual
    details,        \* what get_device_details returned in the check() under way
    ncalls,         \* number of Tracker.loop calls made so far
    events          \* backend requests of this loop call, in order

VARIABLES
    \* Daemon (run_tracker_daemon.py)
    state,          \* the state dict {on, run, conf} of line 104
    pc,             \* position of each thread of the daemon
    ucmd,           \* update_state: the cmd of each thread's call
    utmp,           \* update_state: state['run'] as read by line 85
    uret,           \* where each thread goes on after update_state
    pos_period,     \* run_track_loop: pos_period
    new_conf,       \* run_track_loop: new_conf
    has_err,        \* run_track_loop: has_err
    iter,           \* what the current iteration of run_track_loop has done
    sleeping,       \* the time.sleep call run_track_loop is in, if any
    profile,        \* the profile document read by init_tracker
    poweroff_on_exit,  \* conf['daemon']['poweroff_on_exit']
    cloud_conn,     \* the cloud client is connected
    powered_off,    \* poweroff() was called
    kbint,          \* KeyboardInterrupt was raised in run_track_loop
    po_cmd,         \* a POWEROFF command came from the IPC or cloud channel
    exc,            \* the exception that ended run_track_loop
    shut,           \* shutdown events, in the order of their first occurrence
    \* Channels
    outq,           \* connections made to the HAT manager's listener, in order
    in_bound,       \* the daemon's Listener(addr_in) exists
    in_conn,        \* the connection of the in channel
    inq,            \* commands sent on the in channel, not yet received
    \* HAT manager (run_hat_manager.py)
    hpc,            \* position of the HAT manager
    hard_in,        \* its hard_in: "unset", "open" or "closed"
    lights,         \* the LEDs of board 1
    \* Environment
    cloud_left,     \* messages the cloud broker will still deliver
    buttons_left,   \* button events still to come
    sigint_left,    \* KeyboardInterrupts still to come
    faults          \* the radio link loses requests in this run

VARIABLES
    \* Daemon processes started with one lock path (main, lines 96-102)
    lpc,            \* position of each process
    lock_owner,     \* the process that holds the lock on the file, or NoProc
    touched,        \* the process has made its cloud client, Tracker or IPC sockets
    starts_left     \* starts of each process still to come

\* What update_state has been given (a record of the run).
VARIABLES given

VARIABLES
    \* validate_tracking_config (trkpy/validate.py)
    vdoc,           \* the document handed to validate_tracking_config
    verdict,        \* "none", then "accepted" (returned) or "rejected" (raised)
    \* CloudCollector (trkpy/collect.py), one subscription
    col             \* the list objects, the dict entry, the two threads, the CSV

trackerVars == <<tags, anchors, reconf, loop_cnt, check_period, pos_dim, devlist>>
callVars == <<op, tpc, check_only, rdoc, order, idx, responses>>
obsVars == <<telem, confd, errlog, pushfail, cfglog, pushed, details, ncalls, events>>
tVars == <<trackerVars, callVars, obsVars>>

thVars == <<pc, ucmd, utmp, uret>>
locVars == <<pos_period, new_conf, has_err, iter, sleeping>>
lockVars == <<lpc, lock_owner, touched, starts_left>>
sideVars == <<vdoc, verdict, col>>
setVars == <<profile, poweroff_on_exit, lockVars, sideVars>>
cfgVars == <<setVars, given>>
endVars == <<cloud_conn, powered_off, kbint, po_cmd, exc, shut>>
inVars == <<in_bound, in_conn, inq>>
hatVars == <<hpc, hard_in, lights>>
envVars == <<cloud_left, buttons_left, sigint_left, faults>>
daemonVars == <<state, thVars, locVars, cfgVars, endVars, outq, inVars, hatVars, envVars>>

vars == <<tVars, daemonVars>>

\* The Tracker is used by one thread only: its steps run while that thread
\* is inside a Tracker call.
TrackerRuns == pc["main"] \in {"user", "m_construct", "m_reload_wait", "m_loop_wait"}

\* Whether a request to a remote device is answered.
Answers == IF faults THEN BOOLEAN ELSE {TRUE}

\* All the orders a Python set of tags can be iterated in.
Orders(S) ==
    {s \in [1..Cardinality(S) -> S] : \A i, j \in 1..Cardinality(S) : s[i] = s[j] => i = j}

(***************************************************************************)
(* trkpy/track.py                                                          *)
(***************************************************************************)
\* The outcomes of one set_anchors_manual call for a registry `anc`:
\* whether clearDevices succeeded, and the anchors whose addDevice succeeded.
PushOutcomes(anc) ==
    IF faults THEN [clear : BOOLEAN, added : SUBSET {a[1] : a \in anc}]
    ELSE {[clear |-> TRUE, added |-> {a[1] : a \in anc}]}

\* The device list of a tag after set_anchors_manual(anc) with outcome o.
set_anchors_manual(dl, anc, o) ==
    LET kept  == IF o.clear THEN {} ELSE dl
        added == {a \in anc : a[1] \in o.added}
    IN  {p \in kept : \A q \in added : q[1] # p[1]} \cup added

\* status == POZYX_SUCCESS at the end of set_anchors_manual
set_anchors_status(anc, o) == o.clear /\ o.added = {a[1] : a \in anc}

\* get_anchors_config: the tag's device list, or nothing when the tag did
\* not answer (list_size stays 0).
get_anchors_config(dl, readOk) == IF readOk THEN dl ELSE {}

(***************************************************************************)
(* Tracker.configure_tag                                                   *)
(***************************************************************************)
\* A configure_tag without the comparison of line 93.
needs_push_always(tag_anchors, anc) == TRUE

\* line 93
needs_push(tag_anchors, anc) == tag_anchors # anc

\* The log of a tag: whether set_anchors_manual was called in each of its
\* latest configure_tag calls that followed one another under one registry
\* with every backend request succeeding; the last two are kept.
logged(log, push, ok) ==
    IF ~ok THEN <<>>
    ELSE IF Len(log) = 0 THEN <<push>> ELSE <<log[Len(log)], push>>

configure_tag(tag, anc, readOk, o) ==
    LET tag_anchors == get_anchors_config(devlist[tag], readOk)
        push        == needs_push(tag_anchors, anc)
        success     == set_anchors_status(anc, o)
    IN  /\ devlist' = IF push
                      THEN [devlist EXCEPT ![tag] = set_anchors_manual(devlist[tag], anc, o)]
                      ELSE devlist
        /\ pushfail' = IF push /\ ~success THEN pushfail \cup {tag} ELSE pushfail \ {tag}
        /\ pushed' = IF push THEN pushed \cup {tag} ELSE pushed \ {tag}
        /\ confd' = confd \cup {tag}
        /\ cfglog' = [cfglog EXCEPT
                         ![tag] = logged(@, push, readOk /\ (push => success))]

(***************************************************************************)
(* Tracker.reload_devices                                                  *)
(***************************************************************************)
\* A reload that adds the document's tags to the ones it had.
new_tags_merged(old, doc) == old \cup {int16(t) : t \in doc.tags}

\* line 176
new_tags(old, doc) == {int16(t) : t \in doc.tags}

\* lines 177-179
new_anchors(old, doc) == {<<int16(a[1]), a[2]>> : a \in doc.anchors}

\* line 176: the set comprehension raises before self.tags is assigned
reload_tags ==
    /\ op = "reload" /\ tpc = "rl_tags"
    /\ TrackerRuns
    /\ IF "tags" \in rdoc.keys /\ \A t \in rdoc.tags : IsHex(t)
       THEN /\ tags' = new_tags(tags, rdoc)
            /\ tpc' = "rl_anchors"
       ELSE /\ tpc' = "raised"
            /\ UNCHANGED tags
    /\ UNCHANGED <<anchors, reconf, loop_cnt, check_period, pos_dim, devlist>>
    /\ UNCHANGED <<op, check_only, rdoc, order, idx, responses>>
    /\ UNCHANGED obsVars
    /\ UNCHANGED daemonVars

\* lines 177-179
reload_anchors ==
    /\ op = "reload" /\ tpc = "rl_anchors"
    /\ TrackerRuns
    /\ IF "anchors" \in rdoc.keys /\ \A a \in rdoc.anchors : IsHex(a[1])
       THEN /\ anchors' = new_anchors(anchors, rdoc)
            /\ cfglog' = IF anchors' = anchors THEN cfglog
                         ELSE [t \in TagIds |-> <<>>]
            /\ \E o \in Orders(tags) : order' = o
            /\ idx' = 1
            /\ tpc' = "rl_conf"
       ELSE /\ tpc' = "raised"
            /\ UNCHANGED <<anchors, order, idx, cfglog>>
    /\ UNCHANGED <<tags, reconf, loop_cnt, check_period, pos_dim, devlist>>
    /\ UNCHANGED <<op, check_only, rdoc, responses>>
    /\ UNCHANGED <<telem, confd, errlog, pushfail, pushed, details, ncalls, events>>
    /\ UNCHANGED daemonVars

\* lines 180-181
reload_configure ==
    /\ op = "reload" /\ tpc = "rl_conf" /\ idx <= Len(order)
    /\ TrackerRuns
    /\ \E readOk \in Answers, o \in PushOutcomes(anchors) :
          configure_tag(order[idx], anchors, readOk, o)
    /\ idx' = idx + 1
    /\ UNCHANGED <<tags, anchors, reconf, loop_cnt, check_period, pos_dim>>
    /\ UNCHANGED <<op, tpc, check_only, rdoc, order, responses>>
    /\ UNCHANGED <<telem, errlog, details, ncalls, events>>
    /\ UNCHANGED daemonVars

\* line 182
reload_clear ==
    /\ op = "reload" /\ tpc = "rl_conf" /\ idx > Len(order)
    /\ TrackerRuns
    /\ reconf' = {}
    /\ tpc' = "ret"
    /\ UNCHANGED <<tags, anchors, loop_cnt, check_period, pos_dim, devlist>>
    /\ UNCHANGED <<op, check_only, rdoc, order, idx, responses>>
    /\ UNCHANGED obsVars
    /\ UNCHANGED daemonVars

(***************************************************************************)
(* Tracker.check                                                           *)
(***************************************************************************)
WhoAmI == 67
TagSelftest == 63
AnchorSelftest == 48

\* get_device_details returned None.
None == [ok |-> FALSE, who_am_i |-> 0, selftest |-> 0]

\* get_device_details of a tag: None, or the details read.
DetailResults ==
    IF faults
    THEN {None} \cup [ok : {TRUE}, who_am_i : {WhoAmI, 0}, selftest : {TagSelftest, AnchorSelftest}]
    ELSE {[ok |-> TRUE, who_am_i |-> WhoAmI, selftest |-> TagSelftest]}

\* get_device_details of an anchor.
AnchorResults ==
    IF faults
    THEN {None} \cup [ok : {TRUE}, who_am_i : {WhoAmI}, selftest : {TagSelftest, AnchorSelftest}]
    ELSE {[ok |-> TRUE, who_am_i |-> WhoAmI, selftest |-> AnchorSelftest]}

\* No check() is under way.
NoDetails == [tag |-> <<>>, anchor |-> <<>>]

\* A check that takes a tag that does not answer for a good one.
tag_good_unless_heard(det) == det.ok => det.who_am_i = WhoAmI /\ det.selftest = TagSelftest

\* lines 71-76
tag_good(det) == det.ok /\ det.who_am_i = WhoAmI /\ det.selftest = TagSelftest

\* The reconfiguration set after check(), det[t] being the details of tag t.
check(rs, det) == rs \cup {t \in tags : ~tag_good(det[t])}

(***************************************************************************)
(* Tracker.localize / track.do_positioning                                 *)
(***************************************************************************)
NoResponse == [polled |-> FALSE, success |-> FALSE, pos |-> <<>>]

\* do_positioning: None (the empty tuple here) or the coordinates.
do_positioning(dim, ok) ==
    IF ~ok THEN <<>>
    ELSE IF dim = 2 THEN <<100, 200>> ELSE <<100, 200, 300>>

localize(dim, ok) ==
    LET pos == do_positioning(dim, ok)
    IN  [polled |-> TRUE, success |-> pos # <<>>, pos |-> pos]

(***************************************************************************)
(* Tracker.loop                                                            *)
(***************************************************************************)
\* A loop that counts the call before it tests the counter.
check_due_counted_first == check_period # 0 /\ (loop_cnt + 1) % check_period = 0

\* line 130
check_due == check_period # 0 /\ loop_cnt % check_period = 0

\* lines 130-131
loop_check ==
    /\ op = "loop" /\ tpc = "check"
    /\ TrackerRuns
    /\ IF check_due
       THEN \E det \in [tags -> DetailResults],
               adet \in [{a[1] : a \in anchors} -> AnchorResults] :
                /\ reconf' = check(reconf, det)
                /\ details' = [tag |-> det, anchor |-> adet]
       ELSE UNCHANGED <<reconf, details>>
    /\ tpc' = "count"
    /\ UNCHANGED <<tags, anchors, loop_cnt, check_period, pos_dim, devlist>>
    /\ UNCHANGED <<op, check_only, rdoc, order, idx, responses>>
    /\ UNCHANGED <<telem, confd, errlog, pushfail, cfglog, pushed, ncalls, events>>
    /\ UNCHANGED daemonVars

\* lines 134-138
loop_count ==
    /\ op = "loop" /\ tpc = "count"
    /\ TrackerRuns
    /\ loop_cnt' = loop_cnt + 1
    /\ details' = NoDetails
    /\ IF check_only
       THEN tpc' = "ret" /\ UNCHANGED <<order, idx>>
       ELSE /\ \E o \in Orders(tags) : order' = o
            /\ idx' = 1
            /\ tpc' = IF tags = {} THEN "proc" ELSE "poll"
    /\ UNCHANGED <<tags, anchors, reconf, check_period, pos_dim, devlist>>
    /\ UNCHANGED <<op, check_only, rdoc, responses>>
    /\ UNCHANGED <<telem, confd, errlog, pushfail, cfglog, pushed, ncalls, events>>
    /\ UNCHANGED daemonVars

\* A round that asks for the position before the wait.
poll_events_unwaited(tag) ==
    << <<"led_on", tag>>, <<"position", tag>>, <<"wait", tag>>, <<"led_off", tag>> >>

\* lines 140-143: setLed(1, True), sleep(wait_time), localize, setLed(1, False)
poll_events(tag) ==
    << <<"led_on", tag>>, <<"wait", tag>>, <<"position", tag>>, <<"led_off", tag>> >>

\* lines 139-143, one round of the for loop: LED on, wait, localize, LED off
loop_poll ==
    /\ op = "loop" /\ tpc = "poll"
    /\ TrackerRuns
    /\ \E ok \in Answers :
          responses' = [responses EXCEPT ![order[idx]] = localize(pos_dim, ok)]
    /\ events' = events \o poll_events(order[idx])
    /\ IF idx < Len(order)
       THEN idx' = idx + 1 /\ UNCHANGED tpc
       ELSE idx' = 1 /\ tpc' = "proc"
    /\ UNCHANGED trackerVars
    /\ UNCHANGED <<op, check_only, rdoc, order>>
    /\ UNCHANGED <<telem, confd, errlog, pushfail, cfglog, pushed, details, ncalls>>
    /\ UNCHANGED daemonVars

\* A loop that trusts every successful fix.
heals_never(tag, rs) == FALSE

\* line 146
heals(tag, rs) == tag \in rs

\* lines 150-153: res['pos'][0..2] raises IndexError on a shorter tuple
datum_raises(pos) == Len(pos) < 3

\* line 148
after_configure(tag, rs) == rs \ {tag}

\* A loop that forgets to mark the tag of a failed fix.
after_failure_unmarked(tag, rs) == rs

\* line 160
after_failure(tag, rs) == rs \cup {tag}

\* lines 144-161, one round of the for loop
loop_process ==
    /\ op = "loop" /\ tpc = "proc" /\ idx <= Len(order)
    /\ TrackerRuns
    /\ LET tag_id == order[idx]
           res    == responses[tag_id]
       IN  IF res.success
           THEN IF heals(tag_id, reconf)
                THEN /\ \E readOk \in Answers, o \in PushOutcomes(anchors) :
                          configure_tag(tag_id, anchors, readOk, o)
                     /\ reconf' = after_configure(tag_id, reconf)
                     /\ idx' = idx + 1
                     /\ UNCHANGED <<tpc, telem, errlog, details, ncalls>>
                ELSE IF datum_raises(res.pos)
                     THEN /\ tpc' = "raised"
                          /\ UNCHANGED <<reconf, devlist, idx, telem, confd, errlog, pushfail, cfglog, pushed, details, ncalls>>
                     ELSE /\ telem' = telem \cup {tag_id}
                          /\ idx' = idx + 1
                          /\ UNCHANGED <<reconf, devlist, tpc, confd, errlog, pushfail, cfglog, pushed, details, ncalls>>
           ELSE /\ reconf' = after_failure(tag_id, reconf)
                /\ errlog' = errlog \cup {tag_id}
                /\ idx' = idx + 1
                /\ UNCHANGED <<devlist, tpc, telem, confd, pushfail, cfglog, pushed, details, ncalls>>
    /\ UNCHANGED <<tags, anchors, loop_cnt, check_period, pos_dim>>
    /\ UNCHANGED <<op, check_only, rdoc, order, responses, events>>
    /\ UNCHANGED daemonVars

\* the end of the for loop of line 144
loop_return ==
    /\ op = "loop" /\ tpc = "proc" /\ idx > Len(order)
    /\ TrackerRuns
    /\ tpc' = "ret"
    /\ UNCHANGED trackerVars
    /\ UNCHANGED <<op, check_only, rdoc, order, idx, responses>>
    /\ UNCHANGED obsVars
    /\ UNCHANGED daemonVars

(***************************************************************************)
(* Entering a Tracker call.                                                *)
(***************************************************************************)
enter_loop(co) ==
    /\ op' = "loop" /\ tpc' = "check" /\ check_only' = co
    /\ order' = <<>> /\ idx' = 1
    /\ responses' = [t \in TagIds |-> NoResponse]
    /\ telem' = {} /\ confd' = {} /\ errlog' = {} /\ events' = <<>>
    /\ ncalls' = ncalls + 1
    /\ UNCHANGED <<rdoc, pushfail, cfglog, pushed, details>>

enter_reload(doc) ==
    /\ op' = "reload" /\ tpc' = "rl_tags" /\ rdoc' = doc
    /\ order' = <<>> /\ idx' = 1
    /\ responses' = [t \in TagIds |-> NoResponse]
    /\ telem' = {} /\ confd' = {} /\ errlog' = {} /\ events' = <<>>
    /\ UNCHANGED <<check_only, pushfail, cfglog, pushed, details, ncalls>>

TrackerStep ==
    \/ reload_tags \/ reload_anchors \/ reload_configure \/ reload_clear
    \/ loop_check \/ loop_count \/ loop_poll \/ loop_process \/ loop_return

(***************************************************************************)
(* Commands, messages and channels.                                        *)
(***************************************************************************)
\* A command string.  text is the string itself, or "{" for a string that
\* starts with a brace, in which case doc is what the string holds.
Cmd(text) == [text |-> text, doc |-> NoDoc]
DocCmd(d) == [text |-> "{", doc |-> d]
NoCmd == Cmd("-")

\* Messages of the out channel: ('O1', v) and the like, "LISTENING", "POWEROFF".
Led(name, v) == [k |-> "led", led |-> name, v |-> v]
Sys(k) == [k |-> k, led |-> "-", v |-> FALSE]

LedNames == {"O1", "R1", "G1"}

Threads == {"main", "ipc", "cloud"}

\* The HAT manager's Listener(address_out) is bound: Client(addr_out) connects.
Listening == hpc \in {"h_accept", "h_recv", "h_blink"}

\* Connections the HAT manager has not accepted yet.
Pending == Len(outq) - (IF hpc = "h_recv" THEN 1 ELSE 0)

\* Client(addr_out) returns once the listener's accept queue has room for
\* the connection: the Listener of run_hat_manager.py:92 asks for a queue
\* of one connection.
Backlog == 1
RoomToConnect == Pending < Backlog

\* with Client(addr_out) as hard_out: hard_out.send(m) for each m of msgs.
\* The connection, with what was sent on it, is queued for accept().
Signal(q, msgs) == Append(q, msgs)

\* The in channel's connection once the daemon side / the HAT side closes.
DaemonCloses(c) ==
    CASE c = "open" -> "dmn_closed" [] c = "hat_closed" -> "closed" [] OTHER -> c

HatCloses(c) ==
    CASE c = "open" -> "hat_closed" [] c = "dmn_closed" -> "closed" [] OTHER -> c

AppendOnce(seq, e) ==
    IF \E i \in DOMAIN seq : seq[i] = e THEN seq ELSE Append(seq, e)

Goto(th, to) == pc' = [pc EXCEPT ![th] = to]

\* The daemon process is running.
Alive == pc["main"] \notin {"m_exit", "m_crashed", "m_end"}

(***************************************************************************)
(* update_state (run_tracker_daemon.py:77-93)                              *)
(***************************************************************************)
\* lines 78-88: the first assignment of the branch taken
update_fields1(cmd, st) ==
    IF cmd.text = "{" THEN [st EXCEPT !.conf = cmd.doc]
    ELSE IF cmd.text = "START" THEN [st EXCEPT !.run = TRUE]
    ELSE IF cmd.text = "STOP" THEN [st EXCEPT !.run = FALSE]
    ELSE IF cmd.text = "POWEROFF" THEN [st EXCEPT !.run = FALSE]
    ELSE st

\* A POWEROFF that leaves on alone.
update_fields2_on_kept(cmd, st, run_read) ==
    IF cmd.text = "TOGGLE" THEN [st EXCEPT !.run = ~run_read] ELSE st

\* line 85 (the store of `not state['run']`, run_read being the value
\* loaded) and line 88
update_fields2(cmd, st, run_read) ==
    IF cmd.text = "TOGGLE" THEN [st EXCEPT !.run = ~run_read]
    ELSE IF cmd.text = "POWEROFF" THEN [st EXCEPT !.on = FALSE]
    ELSE st

\* An indicator that shows run itself.
signal_run(st) == Led("O1", st.run)

\* line 91
signal(st) == Led("O1", ~st.run)

\* What an exception raised inside update_state does to the calling thread:
\* the main thread is either inside the except clause of main (finally
\* follows) or outside the try (the process dies); the listener thread and
\* the cloud network thread end.
update_raises(th, e) ==
    LET dies == th = "main" /\ uret["main"] # "m_join"
    IN  /\ pc' = [pc EXCEPT ![th] =
                    IF th = "main" THEN (IF dies THEN "m_crashed" ELSE "m_join")
                    ELSE IF th = "ipc" THEN "t_dead" ELSE "c_dead"]
        /\ exc' = IF th = "main" THEN e ELSE exc
        /\ in_bound' = IF th = "ipc" \/ dies THEN FALSE ELSE in_bound
        /\ in_conn' = IF th = "ipc" \/ dies THEN DaemonCloses(in_conn) ELSE in_conn
        /\ ucmd' = [ucmd EXCEPT ![th] = NoCmd]

update_returns(th) ==
    /\ pc' = [pc EXCEPT ![th] = uret[th]]
    /\ ucmd' = [ucmd EXCEPT ![th] = NoCmd]

\* lines 78-88, first part
u_apply(th) ==
    /\ Alive /\ pc[th] = "u_apply"
    /\ IF ucmd[th].text = ""
       THEN /\ update_raises(th, "IndexError")
            /\ UNCHANGED <<state, utmp, po_cmd>>
       ELSE /\ state' = update_fields1(ucmd[th], state)
            /\ utmp' = [utmp EXCEPT ![th] = IF ucmd[th].text = "TOGGLE" THEN state.run ELSE @]
            /\ Goto(th, IF ucmd[th].text \in {"TOGGLE", "POWEROFF"} THEN "u_apply2" ELSE "u_signal")
            /\ po_cmd' = (po_cmd \/ (th # "main" /\ ucmd[th].text = "POWEROFF"))
            /\ UNCHANGED <<exc, in_bound, in_conn, ucmd>>
    /\ UNCHANGED <<uret, locVars, cfgVars, cloud_conn, powered_off, kbint, shut>>
    /\ UNCHANGED <<outq, inq, hatVars, envVars>>
    /\ UNCHANGED tVars

\* lines 85 and 88
u_apply2(th) ==
    /\ Alive /\ pc[th] = "u_apply2"
    /\ state' = update_fields2(ucmd[th], state, utmp[th])
    /\ utmp' = [utmp EXCEPT ![th] = FALSE]
    /\ shut' = IF ucmd[th].text = "POWEROFF" THEN AppendOnce(shut, "on_false") ELSE shut
    /\ Goto(th, "u_signal")
    /\ UNCHANGED <<ucmd, uret, locVars, cfgVars, cloud_conn, powered_off, kbint, po_cmd, exc>>
    /\ UNCHANGED <<outq, inVars, hatVars, envVars>>
    /\ UNCHANGED tVars

\* lines 90-93
u_signal(th) ==
    /\ Alive /\ pc[th] = "u_signal"
    /\ Listening => RoomToConnect
    /\ IF Listening
       THEN /\ outq' = Signal(outq, IF ucmd[th].text = "POWEROFF"
                                    THEN <<signal(state), Sys("POWEROFF")>>
                                    ELSE <<signal(state)>>)
            /\ shut' = IF ucmd[th].text = "POWEROFF"
                       THEN AppendOnce(shut, "poweroff_sent") ELSE shut
            /\ update_returns(th)
            /\ UNCHANGED <<exc, in_bound, in_conn>>
       ELSE /\ update_raises(th, "ConnectionRefusedError")
            /\ UNCHANGED <<outq, shut>>
    /\ UNCHANGED <<state, utmp, uret, locVars, cfgVars, cloud_conn, powered_off, kbint, po_cmd>>
    /\ UNCHANGED <<inq, hatVars, envVars>>
    /\ UNCHANGED tVars

\* What has been handed to update_state so far: the number of TOGGLE
\* commands, and whether any other command that assigns run was among them.
NoneGiven == [toggles |-> 0, others |-> FALSE]

Given(g, cmd) ==
    IF cmd.text = "TOGGLE" THEN [g EXCEPT !.toggles = @ + 1]
    ELSE IF cmd.text \in {"START", "STOP", "POWEROFF"} THEN [g EXCEPT !.others = TRUE]
    ELSE g

update_state_step ==
    \E th \in Threads : u_apply(th) \/ u_apply2(th) \/ u_signal(th)

(***************************************************************************)
(* run_hard_in: the IPC listener thread (run_tracker_daemon.py:31-42)      *)
(***************************************************************************)
\* The thread ends: both with blocks close the connection and the listener.
thread_ends(to) ==
    /\ Goto("ipc", to)
    /\ in_bound' = FALSE
    /\ in_conn' = DaemonCloses(in_conn)

\* A run_hard_in that announces itself without a socket bound to addr_in.
listener_binds_never == FALSE

\* line 32: Listener(addr_in) returns with the socket bound and listening
listener_binds == TRUE

\* line 32
t_bind ==
    /\ Alive /\ pc["ipc"] = "t_bind"
    /\ in_bound' = listener_binds
    /\ Goto("ipc", "t_listening")
    /\ UNCHANGED <<state, ucmd, utmp, uret, locVars, cfgVars, endVars>>
    /\ UNCHANGED <<outq, in_conn, inq, hatVars, envVars>>
    /\ UNCHANGED tVars

\* lines 34-35
t_listening ==
    /\ Alive /\ pc["ipc"] = "t_listening"
    /\ Listening => RoomToConnect
    /\ IF Listening
       THEN /\ outq' = Signal(outq, <<Sys("LISTENING")>>)
            /\ Goto("ipc", "t_accept")
            /\ UNCHANGED <<in_bound, in_conn>>
       ELSE /\ thread_ends("t_dead")
            /\ UNCHANGED outq
    /\ UNCHANGED <<state, ucmd, utmp, uret, locVars, cfgVars, endVars>>
    /\ UNCHANGED <<inq, hatVars, envVars>>
    /\ UNCHANGED tVars

\* line 36: blocks until a client has connected
t_accept ==
    /\ Alive /\ pc["ipc"] = "t_accept"
    /\ in_conn \in {"open", "hat_closed"}
    /\ Goto("ipc", "t_chk")
    /\ UNCHANGED <<state, ucmd, utmp, uret, locVars, cfgVars, endVars>>
    /\ UNCHANGED <<outq, inVars, hatVars, envVars>>
    /\ UNCHANGED tVars

\* line 37
listens_on(st) == st.on

t_chk ==
    /\ Alive /\ pc["ipc"] = "t_chk"
    /\ IF listens_on(state)
       THEN Goto("ipc", "t_recv") /\ UNCHANGED <<in_bound, in_conn>>
       ELSE thread_ends("t_done")
    /\ UNCHANGED <<state, ucmd, utmp, uret, locVars, cfgVars, endVars>>
    /\ UNCHANGED <<outq, inq, hatVars, envVars>>
    /\ UNCHANGED tVars

\* lines 38-42: blocks until a command or the end of the stream comes
t_recv ==
    /\ Alive /\ pc["ipc"] = "t_recv"
    /\ \/ /\ inq # <<>>
          /\ ucmd' = [ucmd EXCEPT !["ipc"] = Cmd(Head(inq))]
          /\ uret' = [uret EXCEPT !["ipc"] = "t_chk"]
          /\ given' = Given(given, Cmd(Head(inq)))
          /\ inq' = Tail(inq)
          /\ Goto("ipc", "u_apply")
          /\ UNCHANGED <<in_bound, in_conn>>
       \/ /\ inq = <<>> /\ in_conn = "hat_closed"
          /\ thread_ends("t_done")
          /\ UNCHANGED <<ucmd, uret, inq, given>>
    /\ UNCHANGED <<state, utmp, locVars, setVars, endVars>>
    /\ UNCHANGED <<outq, hatVars, envVars>>
    /\ UNCHANGED tVars

(***************************************************************************)
(* get_cloud_callback: the callback, run on the cloud client's network     *)
(* thread for each message of the commands and config topics.              *)
(***************************************************************************)
c_deliver ==
    /\ Alive /\ pc["cloud"] = "c_idle" /\ cloud_conn
    /\ cloud_left # <<>>
    /\ ucmd' = [ucmd EXCEPT !["cloud"] = Head(cloud_left)]
    /\ uret' = [uret EXCEPT !["cloud"] = "c_idle"]
    /\ given' = Given(given, Head(cloud_left))
    /\ cloud_left' = Tail(cloud_left)
    /\ Goto("cloud", "u_apply")
    /\ UNCHANGED <<state, utmp, locVars, setVars, endVars>>
    /\ UNCHANGED <<outq, inVars, hatVars, buttons_left, sigint_left, faults>>
    /\ UNCHANGED tVars

(***************************************************************************)
(* run_event_loop: the HAT manager (run_hat_manager.py:50-85)              *)
(***************************************************************************)
HatAlive == hpc \in {"h_accept", "h_recv", "h_blink"}

\* The HAT manager process ends: its listener and its sockets close.
hat_ends(to) ==
    /\ hpc' = to
    /\ outq' = <<>>
    /\ in_conn' = IF hard_in = "open" THEN HatCloses(in_conn) ELSE in_conn

\* line 54
h_accept ==
    /\ hpc = "h_accept" /\ outq # <<>>
    /\ hpc' = "h_recv"
    /\ UNCHANGED <<state, thVars, locVars, cfgVars, endVars>>
    /\ UNCHANGED <<outq, inVars, hard_in, lights, envVars>>
    /\ UNCHANGED tVars

\* lines 57-85, for a message received
h_recv ==
    /\ hpc = "h_recv" /\ Head(outq) # <<>>
    /\ LET msg  == Head(Head(outq))
           rest == [outq EXCEPT ![1] = Tail(@)]
       IN  CASE msg.k = "LISTENING" ->
                  \* line 62: Client(address_in)
                  IF in_bound
                  THEN /\ hard_in' = "open" /\ in_conn' = "open" /\ inq' = <<>>
                       /\ outq' = rest
                       /\ UNCHANGED <<hpc, lights>>
                  ELSE \* ConnectionRefusedError, an OSError: main returns (line 94)
                       /\ hat_ends("h_exited")
                       /\ UNCHANGED <<hard_in, inq, lights>>
             [] msg.k = "POWEROFF" ->
                  \* lines 65-69: hard_in is unbound unless LISTENING came
                  IF hard_in = "unset"
                  THEN /\ hat_ends("h_crashed")
                       /\ UNCHANGED <<hard_in, inq, lights>>
                  ELSE /\ hard_in' = "closed"
                       /\ in_conn' = IF hard_in = "open" THEN HatCloses(in_conn) ELSE in_conn
                       /\ hpc' = "h_blink"
                       /\ outq' = rest
                       /\ UNCHANGED <<inq, lights>>
             [] OTHER ->
                  /\ lights' = [lights EXCEPT ![msg.led] = msg.v]
                  /\ outq' = rest
                  /\ UNCHANGED <<hpc, hard_in, in_conn, inq>>
    /\ UNCHANGED <<state, thVars, locVars, cfgVars, endVars>>
    /\ UNCHANGED <<in_bound, envVars>>
    /\ UNCHANGED tVars

\* lines 58-59
h_eof ==
    /\ hpc = "h_recv" /\ Head(outq) = <<>>
    /\ outq' = Tail(outq)
    /\ hpc' = "h_accept"
    /\ UNCHANGED <<state, thVars, locVars, cfgVars, endVars>>
    /\ UNCHANGED <<inVars, hard_in, lights, envVars>>
    /\ UNCHANGED tVars

\* line 68 is over: the loop of line 53 ends and main returns
h_exit ==
    /\ hpc = "h_blink"
    /\ hat_ends("h_exited")
    /\ UNCHANGED <<state, thVars, locVars, cfgVars, endVars>>
    /\ UNCHANGED <<in_bound, inq, hard_in, lights, envVars>>
    /\ UNCHANGED tVars

\* lines 39-47: a button callback sends on hard_in
h_button ==
    /\ HatAlive /\ hard_in = "open" /\ in_conn = "open"
    /\ buttons_left > 0
    /\ buttons_left' = buttons_left - 1
    /\ \E b \in {"TOGGLE", "POWEROFF"} : inq' = Append(inq, b)
    /\ UNCHANGED <<state, thVars, locVars, cfgVars, endVars>>
    /\ UNCHANGED <<outq, in_bound, in_conn, hatVars, cloud_left, sigint_left, faults>>
    /\ UNCHANGED tVars

HatStep == h_accept \/ h_recv \/ h_eof \/ h_exit \/ h_button

(***************************************************************************)
(* main and run_track_loop: the main thread (run_tracker_daemon.py:45-147) *)
(***************************************************************************)
\* The positions of the main thread inside run_track_loop.
LoopPcs == {"m_enter", "m_top", "m_chk_conf", "m_load", "m_period", "m_reload",
            "m_reload_wait", "m_clear", "m_g1", "m_loop", "m_loop_wait", "m_r1", "m_sleep",
            "m_sleeping"}

NewIter == [reload |-> FALSE, pass |-> FALSE]

\* The daemon process ends: its sockets close.
process_ends ==
    /\ in_bound' = FALSE
    /\ in_conn' = DaemonCloses(in_conn)

\* An exception other than KeyboardInterrupt leaves run_track_loop: the
\* finally clause follows.
main_raises(e) ==
    /\ Goto("main", "m_join")
    /\ exc' = e

\* lines 107-112
m_probe ==
    /\ pc["main"] = "m_probe"
    /\ Listening => RoomToConnect
    /\ IF Listening
       THEN /\ outq' = Signal(outq, <<>>)
            /\ Goto("main", "m_start_thread")
       ELSE /\ Goto("main", "m_exit")
            /\ UNCHANGED outq
    /\ UNCHANGED <<state, ucmd, utmp, uret, locVars, cfgVars, endVars>>
    /\ UNCHANGED <<inVars, hatVars, envVars>>
    /\ UNCHANGED tVars

\* lines 113-119
m_start_thread ==
    /\ pc["main"] = "m_start_thread"
    /\ pc' = [pc EXCEPT !["main"] = "m_init_cloud", !["ipc"] = "t_bind"]
    /\ UNCHANGED <<state, ucmd, utmp, uret, locVars, cfgVars, endVars>>
    /\ UNCHANGED <<outq, inVars, hatVars, envVars>>
    /\ UNCHANGED tVars

\* lines 121-126
m_init_cloud ==
    /\ pc["main"] = "m_init_cloud"
    /\ pc' = [pc EXCEPT !["main"] = "m_init_tracker", !["cloud"] = "c_idle"]
    /\ cloud_conn' = TRUE
    /\ UNCHANGED <<state, ucmd, utmp, uret, locVars, cfgVars, powered_off, kbint, po_cmd, exc, shut>>
    /\ UNCHANGED <<outq, inVars, hatVars, envVars>>
    /\ UNCHANGED tVars

\* lines 128-133 and track_publish.py:277-292, 58-64
m_init_tracker ==
    /\ pc["main"] = "m_init_tracker"
    /\ \/ /\ enter_reload(profile)
          /\ Goto("main", "m_construct")
          /\ UNCHANGED <<cloud_conn, in_bound, in_conn>>
       \/ \* OSError: no Pozyx connected
          /\ cloud_conn' = FALSE
          /\ Goto("main", "m_exit")
          /\ process_ends
          /\ UNCHANGED <<callVars, obsVars>>
    /\ UNCHANGED <<state, ucmd, utmp, uret, locVars, cfgVars, powered_off, kbint, po_cmd, exc, shut>>
    /\ UNCHANGED <<outq, inq, hatVars, envVars>>
    /\ UNCHANGED trackerVars

\* lines 135-139: update_state("STOP"), then run_track_loop (lines 46-49)
m_boot_stop ==
    /\ pc["main"] = "m_construct" /\ tpc = "ret"
    /\ ucmd' = [ucmd EXCEPT !["main"] = Cmd("STOP")]
    /\ uret' = [uret EXCEPT !["main"] = "m_enter"]
    /\ given' = Given(given, Cmd("STOP"))
    /\ Goto("main", "u_apply")
    /\ UNCHANGED <<state, utmp, locVars, setVars, endVars>>
    /\ UNCHANGED <<outq, inVars, hatVars, envVars>>
    /\ UNCHANGED tVars

\* lines 46-49, with the override of track_publish.py:277-280
m_enter ==
    /\ pc["main"] = "m_enter"
    /\ pos_period' = profile.interval
    /\ Goto("main", "m_top")
    /\ UNCHANGED <<state, ucmd, utmp, uret, new_conf, has_err, iter, sleeping, cfgVars, endVars>>
    /\ UNCHANGED <<outq, inVars, hatVars, envVars>>
    /\ UNCHANGED tVars

\* A loop that does not look at on.
loop_forever(st) == TRUE

\* line 50
loop_continues(st) == st.on

m_top ==
    /\ pc["main"] = "m_top"
    /\ loop_continues(state) => loop_cnt < MaxIters
    /\ IF loop_continues(state)
       THEN Goto("main", "m_chk_conf") /\ iter' = NewIter
       ELSE Goto("main", "m_join") /\ UNCHANGED iter
    /\ UNCHANGED <<state, ucmd, utmp, uret, pos_period, sleeping, new_conf, has_err, cfgVars, endVars>>
    /\ UNCHANGED <<outq, inVars, hatVars, envVars>>
    /\ UNCHANGED tVars

\* A loop that does not look at the pending config.
config_ignored(st) == FALSE

\* line 55
config_pending(st) == st.conf # NoDoc

m_chk_conf ==
    /\ pc["main"] = "m_chk_conf"
    /\ Goto("main", IF config_pending(state) THEN "m_load" ELSE "m_g1")
    /\ UNCHANGED <<state, ucmd, utmp, uret, locVars, cfgVars, endVars>>
    /\ UNCHANGED <<outq, inVars, hatVars, envVars>>
    /\ UNCHANGED tVars

\* line 56
m_load ==
    /\ pc["main"] = "m_load"
    /\ IF state.conf.json
       THEN /\ new_conf' = state.conf
            /\ iter' = [iter EXCEPT !.reload = TRUE]
            /\ Goto("main", "m_period")
            /\ UNCHANGED exc
       ELSE /\ main_raises("JSONDecodeError")
            /\ UNCHANGED <<new_conf, iter>>
    /\ UNCHANGED <<state, ucmd, utmp, uret, pos_period, sleeping, has_err, cfgVars>>
    /\ UNCHANGED <<cloud_conn, powered_off, kbint, po_cmd, shut>>
    /\ UNCHANGED <<outq, inVars, hatVars, envVars>>
    /\ UNCHANGED tVars

\* line 57
m_period ==
    /\ pc["main"] = "m_period"
    /\ IF "interval" \in new_conf.keys
       THEN /\ pos_period' = new_conf.interval
            /\ Goto("main", "m_reload")
            /\ UNCHANGED exc
       ELSE /\ main_raises("KeyError")
            /\ UNCHANGED pos_period
    /\ UNCHANGED <<state, ucmd, utmp, uret, new_conf, has_err, iter, sleeping, cfgVars>>
    /\ UNCHANGED <<cloud_conn, powered_off, kbint, po_cmd, shut>>
    /\ UNCHANGED <<outq, inVars, hatVars, envVars>>
    /\ UNCHANGED tVars

\* line 58, the call
m_reload ==
    /\ pc["main"] = "m_reload"
    /\ enter_reload(new_conf)
    /\ Goto("main", "m_reload_wait")
    /\ UNCHANGED <<state, ucmd, utmp, uret, locVars, cfgVars, endVars>>
    /\ UNCHANGED <<outq, inVars, hatVars, envVars>>
    /\ UNCHANGED trackerVars

\* line 58, the return or the exception (KeyError, ValueError)
m_reloaded ==
    /\ pc["main"] = "m_reload_wait" /\ tpc \in {"ret", "raised"}
    /\ IF tpc = "ret"
       THEN Goto("main", "m_clear") /\ UNCHANGED exc
       ELSE main_raises("ReloadError")
    /\ UNCHANGED <<state, ucmd, utmp, uret, locVars, cfgVars>>
    /\ UNCHANGED <<cloud_conn, powered_off, kbint, po_cmd, shut>>
    /\ UNCHANGED <<outq, inVars, hatVars, envVars>>
    /\ UNCHANGED tVars

\* lines 59-60
m_clear ==
    /\ pc["main"] = "m_clear"
    /\ state' = [state EXCEPT !.conf = NoDoc]
    /\ Goto("main", "m_top")
    /\ UNCHANGED <<ucmd, utmp, uret, locVars, cfgVars, endVars>>
    /\ UNCHANGED <<outq, inVars, hatVars, envVars>>
    /\ UNCHANGED tVars

\* A with Client(addr_out) block of run_track_loop (lines 63-64, 70-72).
m_signal(from, to, msgs) ==
    /\ pc["main"] = from
    /\ Listening => RoomToConnect
    /\ IF Listening
       THEN /\ outq' = Signal(outq, msgs)
            /\ Goto("main", to)
            /\ UNCHANGED exc
       ELSE /\ main_raises("ConnectionRefusedError")
            /\ UNCHANGED outq
    /\ UNCHANGED <<state, ucmd, utmp, uret, locVars, cfgVars>>
    /\ UNCHANGED <<cloud_conn, powered_off, kbint, po_cmd, shut>>
    /\ UNCHANGED <<inVars, hatVars, envVars>>
    /\ UNCHANGED tVars

\* lines 63-64
m_g1 == m_signal("m_g1", "m_loop", <<Led("G1", TRUE)>>)

\* A loop that always tracks.
tracks_always(st) == FALSE

\* lines 65-68: the check_only argument of tracker.loop
paused(st) == ~st.run

\* lines 65-68, the call
m_loop ==
    /\ pc["main"] = "m_loop"
    /\ enter_loop(paused(state))
    /\ iter' = [iter EXCEPT !.pass = TRUE]
    /\ Goto("main", "m_loop_wait")
    /\ UNCHANGED <<state, ucmd, utmp, uret, pos_period, sleeping, new_conf, has_err, cfgVars, endVars>>
    /\ UNCHANGED <<outq, inVars, hatVars, envVars>>
    /\ UNCHANGED trackerVars

\* What the docstring of has_tag_errors says: an error in the latest loop.
has_tag_errors_latest == errlog # {}

\* Tracker.has_tag_errors
has_tag_errors == reconf # {}

\* lines 65-69: the return of tracker.loop, or its exception
m_looped ==
    /\ pc["main"] = "m_loop_wait" /\ tpc \in {"ret", "raised"}
    /\ IF tpc = "ret"
       THEN /\ has_err' = has_tag_errors
            /\ Goto("main", "m_r1")
            /\ UNCHANGED exc
       ELSE /\ main_raises("IndexError")
            /\ UNCHANGED has_err
    /\ UNCHANGED <<state, ucmd, utmp, uret, pos_period, sleeping, new_conf, iter, cfgVars>>
    /\ UNCHANGED <<cloud_conn, powered_off, kbint, po_cmd, shut>>
    /\ UNCHANGED <<outq, inVars, hatVars, envVars>>
    /\ UNCHANGED tVars

\* lines 70-72
m_r1 == m_signal("m_r1", "m_sleep", <<Led("R1", has_err), Led("G1", FALSE)>>)

\* No time.sleep call is in progress.
NoSleep == [on |-> FALSE, elapsed |-> 0, time |-> 0]

\* The values time.time() - t_start can take, in units of the periods.
Elapsed == 0..MaxElapsed

\* A loop that passes the difference to time.sleep as it is.
sleep_time_unclamped(P, E) == P - E

\* line 74: max(0, pos_period - t_elapsed)
sleep_time(P, E) == IF P - E > 0 THEN P - E ELSE 0

\* lines 73-74: t_elapsed is measured and time.sleep is called
m_sleep ==
    /\ pc["main"] = "m_sleep"
    /\ \E t_elapsed \in Elapsed :
          sleeping' = [on |-> TRUE, elapsed |-> t_elapsed,
                       time |-> sleep_time(pos_period, t_elapsed)]
    /\ Goto("main", "m_sleeping")
    /\ UNCHANGED <<state, ucmd, utmp, uret, pos_period, new_conf, has_err, iter>>
    /\ UNCHANGED <<cfgVars, endVars>>
    /\ UNCHANGED <<outq, inVars, hatVars, envVars>>
    /\ UNCHANGED tVars

\* line 74: time.sleep returns
m_wake ==
    /\ pc["main"] = "m_sleeping"
    /\ sleeping' = NoSleep
    /\ Goto("main", "m_top")
    /\ UNCHANGED <<state, ucmd, utmp, uret, pos_period, new_conf, has_err, iter>>
    /\ UNCHANGED <<cfgVars, endVars>>
    /\ UNCHANGED <<outq, inVars, hatVars, envVars>>
    /\ UNCHANGED tVars

\* lines 140-141: KeyboardInterrupt is raised somewhere in run_track_loop
m_interrupt ==
    /\ pc["main"] \in LoopPcs /\ sigint_left > 0
    /\ sigint_left' = sigint_left - 1
    /\ kbint' = TRUE
    /\ ucmd' = [ucmd EXCEPT !["main"] = Cmd("POWEROFF")]
    /\ uret' = [uret EXCEPT !["main"] = "m_join"]
    /\ given' = Given(given, Cmd("POWEROFF"))
    /\ sleeping' = NoSleep
    /\ Goto("main", "u_apply")
    /\ UNCHANGED <<state, utmp, pos_period, new_conf, has_err, iter>>
    /\ UNCHANGED <<setVars, cloud_conn, powered_off, po_cmd, exc, shut>>
    /\ UNCHANGED <<outq, inVars, hatVars, cloud_left, buttons_left, faults>>
    /\ UNCHANGED tVars

\* line 143: blocks until run_hard_in has returned or raised
m_join ==
    /\ pc["main"] = "m_join"
    /\ pc["ipc"] \in {"t_done", "t_dead"}
    /\ shut' = AppendOnce(shut, "joined")
    /\ Goto("main", "m_disconnect")
    /\ UNCHANGED <<state, ucmd, utmp, uret, locVars, cfgVars, cloud_conn, powered_off, kbint, po_cmd, exc>>
    /\ UNCHANGED <<outq, inVars, hatVars, envVars>>
    /\ UNCHANGED tVars

\* lines 144-145
m_disconnect ==
    /\ pc["main"] = "m_disconnect"
    /\ cloud_conn' = FALSE
    /\ shut' = AppendOnce(shut, "disconnected")
    /\ Goto("main", "m_poweroff")
    /\ UNCHANGED <<state, ucmd, utmp, uret, locVars, cfgVars, powered_off, kbint, po_cmd, exc>>
    /\ UNCHANGED <<outq, inVars, hatVars, envVars>>
    /\ UNCHANGED tVars

\* line 146
calls_poweroff == poweroff_on_exit

\* lines 146-147, and the end of the process
m_poweroff ==
    /\ pc["main"] = "m_poweroff"
    /\ powered_off' = calls_poweroff
    /\ Goto("main", "m_end")
    /\ process_ends
    /\ UNCHANGED <<state, ucmd, utmp, uret, locVars, cfgVars, cloud_conn, kbint, po_cmd, exc, shut>>
    /\ UNCHANGED <<outq, inq, hatVars, envVars>>
    /\ UNCHANGED tVars

MainStep ==
    \/ m_probe \/ m_start_thread \/ m_init_cloud \/ m_init_tracker \/ m_boot_stop
    \/ m_enter
    \/ m_top \/ m_chk_conf \/ m_load \/ m_period \/ m_reload \/ m_reloaded \/ m_clear
    \/ m_g1 \/ m_loop \/ m_looped \/ m_r1 \/ m_sleep \/ m_wake
    \/ m_interrupt \/ m_join \/ m_disconnect \/ m_poweroff

IpcStep == t_bind \/ t_listening \/ t_accept \/ t_chk \/ t_recv

(***************************************************************************)
(* The lock step of main (run_tracker_daemon.py:96-102, trkpy/system.py).  *)
(* Several daemon processes are started with the same lock path.           *)
(***************************************************************************)
Procs == {1, 2}
NoProc == 0

\* The other variables of the model belong to one daemon; the processes of
\* the lock step leave them alone.
lockOnly == <<tVars, state, thVars, locVars, profile, poweroff_on_exit, endVars,
              outq, inVars, hatVars, envVars, sideVars, given>>

\* A lockf that never fails.
lockf_granted_always(owner, p) == TRUE

\* fcntl.lockf(fd, LOCK_EX | LOCK_NB): granted unless another process holds
\* a lock on the file; IOError otherwise.
lockf_granted(owner, p) == owner \in {NoProc, p}

\* The process is started.
p_start(p) ==
    /\ lpc[p] = "p_off" /\ starts_left[p] > 0
    /\ starts_left' = [starts_left EXCEPT ![p] = @ - 1]
    /\ lpc' = [lpc EXCEPT ![p] = "p_open"]
    /\ UNCHANGED <<lock_owner, touched>>
    /\ UNCHANGED lockOnly

\* lock_file, system.py:47: os.open(lock_path, O_WRONLY | O_CREAT)
p_open(p) ==
    /\ lpc[p] = "p_open"
    /\ lpc' = [lpc EXCEPT ![p] = "p_lock"]
    /\ UNCHANGED <<lock_owner, touched, starts_left>>
    /\ UNCHANGED lockOnly

\* is_already_running, lock_file: lines 15-21 and system.py:48-51
p_lock(p) ==
    /\ lpc[p] = "p_lock"
    /\ IF lockf_granted(lock_owner, p)
       THEN /\ lock_owner' = p
            /\ lpc' = [lpc EXCEPT ![p] = "p_online"]
       ELSE \* is_already_running: main returns, the process ends
            /\ lpc' = [lpc EXCEPT ![p] = "p_off"]
            /\ UNCHANGED lock_owner
    /\ UNCHANGED <<touched, starts_left>>
    /\ UNCHANGED lockOnly

\* The process ends: the kernel closes its descriptors, the lock goes.
p_ends(p) ==
    /\ lpc' = [lpc EXCEPT ![p] = "p_off"]
    /\ lock_owner' = IF lock_owner = p THEN NoProc ELSE lock_owner
    /\ touched' = [touched EXCEPT ![p] = FALSE]

\* is_online, line 101
p_online(p) ==
    /\ lpc[p] = "p_online"
    /\ \/ /\ lpc' = [lpc EXCEPT ![p] = "p_run"]
          /\ UNCHANGED <<lock_owner, touched>>
       \/ p_ends(p)
    /\ UNCHANGED starts_left
    /\ UNCHANGED lockOnly

\* lines 103-139: the sockets, the cloud client and the Tracker are made
p_run(p) ==
    /\ lpc[p] = "p_run" /\ ~touched[p]
    /\ touched' = [touched EXCEPT ![p] = TRUE]
    /\ UNCHANGED <<lpc, lock_owner, starts_left>>
    /\ UNCHANGED lockOnly

\* main returns or dies, at any point after line 102
p_exit(p) ==
    /\ lpc[p] = "p_run"
    /\ p_ends(p)
    /\ UNCHANGED starts_left
    /\ UNCHANGED lockOnly

\* update_daemon_led.py: the health probe, one more process that calls
\* lock_file on the same path.
Prober == 3

probeOnly == <<tVars, state, thVars, locVars, profile, poweroff_on_exit, endVars,
               inVars, hatVars, envVars, sideVars, given>>

\* update_daemon_led.py line 20, system.py:48-51
q_lock ==
    /\ lpc[Prober] = "p_lock"
    /\ IF lockf_granted(lock_owner, Prober)
       THEN /\ lock_owner' = Prober
            /\ lpc' = [lpc EXCEPT ![Prober] = "q_on"]
       ELSE /\ lpc' = [lpc EXCEPT ![Prober] = "q_off"]
            /\ UNCHANGED lock_owner
    /\ UNCHANGED <<touched, starts_left, outq>>
    /\ UNCHANGED probeOnly

\* lines 21-25: the message is sent and the probe ends
q_send ==
    /\ lpc[Prober] \in {"q_on", "q_off"}
    /\ outq' = Signal(outq, <<Led("R2", lpc[Prober] = "q_on")>>)
    /\ p_ends(Prober)
    /\ UNCHANGED starts_left
    /\ UNCHANGED probeOnly

\* No second process in the models of one daemon.
LockNew ==
    /\ lpc = [p \in Procs |-> "p_off"]
    /\ lock_owner = NoProc
    /\ touched = [p \in Procs |-> FALSE]
    /\ starts_left = [p \in Procs |-> 0]

(***************************************************************************)
(* trkpy/validate.py: validate(conf, TRACKING_SCHEMA).                     *)
(* A JSON value is a record: t is its type, n twice its value if it is a   *)
(* number, s its characters if it is a string, items its elements if it is *)
(* an array, members its <<key, value>> pairs if it is an object.          *)
(***************************************************************************)
JValue(t, n, s, items, members) ==
    [t |-> t, n |-> n, s |-> s, items |-> items, members |-> members]

Missing == JValue("missing", 0, <<>>, <<>>, {})
JTrue == JValue("boolean", 2, <<>>, <<>>, {})
JNum(twice) == JValue("number", twice, <<>>, <<>>, {})
JStr(s) == JValue("string", 0, s, <<>>, {})
JArr(items) == JValue("array", 0, <<>>, items, {})
JObj(members) == JValue("object", 0, <<>>, <<>>, members)

\* A pattern that takes the prefix for optional, as int(s, 16) does.
matches_hex_unprefixed(s) == IsHex(s)

\* line 3: re.search("^0[xX][0-9a-fA-F]+$", s); $ also matches before a
\* newline that ends the string
matches_hex(s) ==
    LET core == IF Len(s) > 0 /\ s[Len(s)] = "\n" THEN SubSeq(s, 1, Len(s) - 1) ELSE s
    IN  /\ Len(core) >= 3
        /\ core[1] = "0" /\ core[2] \in {"x", "X"}
        /\ \A i \in 3..Len(core) : core[i] \in HexChars

\* 'type': "integer" (a number without fractional part; not a boolean)
is_integer(v) == v.t = "number" /\ v.n % 2 = 0

\* 'uniqueItems': True
unique_items(items) == \A i, j \in 1..Len(items) : items[i] = items[j] => i = j

\* lines 10-15
valid_coordinates(v) ==
    /\ v.t = "array"
    /\ \A i \in 1..Len(v.items) : is_integer(v.items[i])
    /\ Len(v.items) >= 3
    /\ Len(v.items) <= 3

\* lines 7-18: a key that matches the pattern has a valid value, and no
\* other key is allowed
valid_anchors(v) ==
    /\ v.t = "object"
    /\ \A m \in v.members : matches_hex(m[1]) /\ valid_coordinates(m[2])

\* lines 22-27 and 29-34
valid_hex_list(v) ==
    /\ v.t = "array"
    /\ \A i \in 1..Len(v.items) : v.items[i].t = "string" /\ matches_hex(v.items[i].s)
    /\ Len(v.items) >= 1
    /\ unique_items(v.items)

\* lines 19-28
valid_floors(v) ==
    /\ v.t = "object"
    /\ \A m \in v.members : valid_hex_list(m[2])

\* lines 35-38
valid_interval(v) == is_integer(v) /\ v.n > 0

\* lines 4-40: a property is checked if present; three are required
validate(doc) ==
    /\ doc.anchors # Missing /\ valid_anchors(doc.anchors)
    /\ doc.tags # Missing /\ valid_hex_list(doc.tags)
    /\ doc.interval # Missing /\ valid_interval(doc.interval)
    /\ doc.floors # Missing => valid_floors(doc.floors)

\* lines 43-44
validate_tracking_config ==
    /\ verdict = "none"
    /\ verdict' = IF validate(vdoc) THEN "accepted" ELSE "rejected"
    /\ UNCHANGED <<vdoc, col>>
    /\ UNCHANGED <<tVars, state, thVars, locVars, profile, poweroff_on_exit, lockVars, given>>
    /\ UNCHANGED <<endVars, outq, inVars, hatVars, envVars>>

\* No document has been handed to validate_tracking_config.
(***************************************************************************)
(* trkpy/collect.py: CloudCollector with one subscription.  on_message     *)
(* runs on the MQTT network thread, flush on the flush thread of           *)
(* collect_save.py:228-237.  A list object is an index into col.lists;     *)
(* col.cur is the object that self._sub_buffers[sub] refers to.            *)
(***************************************************************************)
\* line 31, and nothing delivered or written yet
ColNew ==
    [lists |-> << <<>> >>, cur |-> 1, csv |-> <<>>, sent |-> 0, flushes |-> 0,
     opc |-> "idle", o_list |-> 0, o_msg |-> 0,
     fpc |-> "idle", f_buf |-> 0, older |-> 0, split |-> 0, to_flush |-> <<>>, kept |-> <<>>]

\* The other variables, which CloudCollector does not touch.
colOnly == <<tVars, state, thVars, locVars, profile, poweroff_on_exit, lockVars, given,
             endVars, outq, inVars, hatVars, envVars, vdoc, verdict>>

\* lines 37-56: the message is decoded and stamped (line 51: messages are
\* numbered by their time of arrival), and self._sub_buffers[message.topic]
\* is evaluated
on_message ==
    /\ col.opc = "idle" /\ col.sent < MaxMsgs
    /\ col' = [col EXCEPT !.sent = @ + 1, !.o_msg = col.sent + 1,
                          !.o_list = col.cur, !.opc = "o_append"]
    /\ UNCHANGED colOnly

\* lines 56-58: .append(...) on the list object evaluated before
append_target(c) == c.o_list

on_message_append ==
    /\ col.opc = "o_append"
    /\ col' = [col EXCEPT !.lists[append_target(col)] = Append(@, col.o_msg),
                          !.o_list = 0, !.o_msg = 0, !.opc = "idle"]
    /\ UNCHANGED colOnly

\* collect_save.py:236-237 and line 61: flush(older_than) takes the list
\* object out of the dict; older_than is now - write_after
flush ==
    /\ col.fpc = "idle" /\ col.flushes < MaxFlushes
    /\ \E older_than \in 0..col.sent :
          col' = [col EXCEPT !.flushes = @ + 1, !.f_buf = col.cur,
                             !.older = older_than, !.fpc = "f_split"]
    /\ UNCHANGED colOnly

\* lines 64-73: the index of the first element more recent than older_than,
\* or the length of the buffer
first_after(buffer, older_than) ==
    IF \E i \in 1..Len(buffer) : buffer[i] > older_than
    THEN (CHOOSE i \in 1..Len(buffer) :
             /\ buffer[i] > older_than
             /\ \A k \in 1..(i - 1) : buffer[k] <= older_than) - 1
    ELSE Len(buffer)

flush_done(c) ==
    [c EXCEPT !.f_buf = 0, !.older = 0, !.split = 0, !.to_flush = <<>>,
              !.kept = <<>>, !.fpc = "idle"]

\* lines 64-78
flush_split ==
    /\ col.fpc = "f_split"
    /\ LET split == first_after(col.lists[col.f_buf], col.older)
       IN  col' = IF split = 0 THEN flush_done(col)
                  ELSE [col EXCEPT !.split = split, !.fpc = "f_take"]
    /\ UNCHANGED colOnly

\* line 79: to_flush = buffer[:split]
flush_take ==
    /\ col.fpc = "f_take"
    /\ col' = [col EXCEPT !.to_flush = SubSeq(col.lists[col.f_buf], 1, col.split),
                          !.fpc = "f_keep"]
    /\ UNCHANGED colOnly

\* line 80, right-hand side: buffer[split:]
flush_keep ==
    /\ col.fpc = "f_keep"
    /\ col' = [col EXCEPT !.kept = SubSeq(col.lists[col.f_buf], col.split + 1,
                                          Len(col.lists[col.f_buf])),
                          !.fpc = "f_store"]
    /\ UNCHANGED colOnly

\* line 80, the store: the dict refers to the new list
flush_store ==
    /\ col.fpc = "f_store"
    /\ col' = [col EXCEPT !.lists = Append(@, col.kept),
                          !.cur = Len(col.lists) + 1, !.kept = <<>>,
                          !.fpc = "f_write"]
    /\ UNCHANGED colOnly

\* lines 82-101: the rows are appended to the CSV file
flush_write ==
    /\ col.fpc = "f_write"
    /\ col' = [flush_done(col) EXCEPT !.csv = col.csv \o col.to_flush]
    /\ UNCHANGED colOnly

NoJson == [anchors |-> Missing, tags |-> Missing, interval |-> Missing, floors |-> Missing]

SideNew == vdoc = NoJson /\ verdict = "none" /\ col = ColNew

(***************************************************************************)
(* Initial values.                                                         *)
(***************************************************************************)
\* main has built the state dict (line 104) and nothing else.
StateNew == [on |-> TRUE, run |-> FALSE, conf |-> NoDoc]

DaemonNew ==
    /\ ucmd = [th \in Threads |-> NoCmd]
    /\ utmp = [th \in Threads |-> FALSE]
    /\ uret = [th \in Threads |-> "-"]
    /\ pos_period = 0 /\ new_conf = NoDoc /\ has_err = FALSE /\ iter = NewIter
    /\ sleeping = NoSleep
    /\ powered_off = FALSE /\ kbint = FALSE /\ po_cmd = FALSE
    /\ exc = "none" /\ shut = <<>>
    /\ outq = <<>> /\ in_bound = FALSE /\ in_conn = "none" /\ inq = <<>>
    /\ hard_in = "unset" /\ lights = [l \in LedNames |-> FALSE]
    /\ given = NoneGiven

\* No Tracker object exists yet.
TrackerNew ==
    /\ tags = {} /\ anchors = {} /\ reconf = {} /\ loop_cnt = 0
    /\ op = "none" /\ tpc = "idle" /\ check_only = FALSE /\ rdoc = NoDoc
    /\ order = <<>> /\ idx = 1
    /\ responses = [t \in TagIds |-> NoResponse]
    /\ telem = {} /\ confd = {} /\ errlog = {} /\ pushfail = {} /\ events = <<>>
    /\ cfglog = [t \in TagIds |-> <<>>] /\ pushed = {} /\ details = NoDetails
    /\ ncalls = 0

(***************************************************************************)
(* The Tracker on its own: Tracker.__init__ (reload_devices of the         *)
(* profile), then any sequence of loop and reload_devices calls, as in     *)
(* main of track_publish.py.                                               *)
(***************************************************************************)
CheckPeriods == {0, 2}
PosDims == {2, 3}
StaleLists == {{}, {<<10, <<0, 0, 1>> >>}}

InitTracker ==
    /\ tags = {} /\ anchors = {} /\ reconf = {} /\ loop_cnt = 0
    /\ check_period \in CheckPeriods
    /\ pos_dim \in PosDims
    /\ devlist \in [TagIds -> StaleLists]
    /\ op = "reload" /\ tpc = "rl_tags" /\ check_only = FALSE
    /\ rdoc \in ValidDocs
    /\ order = <<>> /\ idx = 1
    /\ responses = [t \in TagIds |-> NoResponse]
    /\ telem = {} /\ confd = {} /\ errlog = {} /\ pushfail = {} /\ events = <<>>
    /\ cfglog = [t \in TagIds |-> <<>>] /\ pushed = {} /\ details = NoDetails
    /\ ncalls = 0
    /\ DaemonNew /\ LockNew /\ SideNew /\ state = StateNew /\ cloud_conn = FALSE
    /\ pc = [main |-> "user", ipc |-> "t_idle", cloud |-> "c_off"]
    /\ profile = NoDoc /\ poweroff_on_exit = FALSE
    /\ hpc = "h_off"
    /\ cloud_left = <<>> /\ buttons_left = 0 /\ sigint_left = 0 /\ faults = TRUE

call_loop ==
    /\ tpc = "ret" /\ loop_cnt < MaxLoops
    /\ \E co \in BOOLEAN : enter_loop(co)
    /\ UNCHANGED trackerVars
    /\ UNCHANGED daemonVars

call_reload ==
    /\ tpc = "ret"
    /\ \E doc \in ValidDocs : enter_reload(doc)
    /\ UNCHANGED trackerVars
    /\ UNCHANGED daemonVars

NextTracker == TrackerStep \/ call_loop \/ call_reload

SpecTracker == InitTracker /\ [][NextTracker]_vars

(***************************************************************************)
(* update_state on its own: one caller (the cloud network thread) makes    *)
(* one call after the other, from any state; the HAT manager listens.      *)
(***************************************************************************)
Commands == {Cmd("START"), Cmd("STOP"), Cmd("TOGGLE"), Cmd("POWEROFF"),
             Cmd("RESET"), Cmd(""), DocCmd(DocA), DocCmd(DocB)}

RECURSIVE Scripts(_, _)
Scripts(C, n) ==
    IF n = 0 THEN {<<>>}
    ELSE LET shorter == Scripts(C, n - 1)
         IN  shorter \cup {Append(s, c) : s \in shorter, c \in C}

InitUpdate ==
    /\ TrackerNew
    /\ check_period = 0 /\ pos_dim = 3 /\ devlist = [t \in TagIds |-> {}]
    /\ DaemonNew /\ LockNew /\ SideNew /\ cloud_conn = TRUE
    /\ state \in [on : BOOLEAN, run : BOOLEAN, conf : {NoDoc, DocA}]
    /\ pc = [main |-> "user", ipc |-> "t_idle", cloud |-> "c_idle"]
    /\ profile = NoDoc /\ poweroff_on_exit = FALSE
    /\ hpc = "h_accept"
    /\ cloud_left \in Scripts(Commands, MaxCalls) /\ buttons_left = 0
    /\ sigint_left = 0 /\ faults = FALSE

NextUpdate == c_deliver \/ update_state_step \/ h_accept \/ h_recv \/ h_eof

SpecUpdate == InitUpdate /\ [][NextUpdate]_vars

(***************************************************************************)
(* The daemon: main, the listener thread, the cloud callback, the Tracker, *)
(* and the HAT manager with its buttons.                                   *)
(***************************************************************************)
\* What the cloud broker delivers in a run of the daemon.
CommandDeliveries ==
    {<<Cmd("START"), Cmd("POWEROFF")>>, <<Cmd("POWEROFF"), Cmd("START")>>}

ConfigDeliveries ==
    {<<Cmd("START"), DocCmd(DocB)>>, <<DocCmd(DocB), DocCmd(DocA)>>}
    \cup {<<DocCmd(d)>> : d \in InvalidDocs}

InitDaemon ==
    /\ TrackerNew
    /\ check_period = 0 /\ pos_dim = 3 /\ devlist = [t \in TagIds |-> {}]
    /\ DaemonNew /\ LockNew /\ SideNew /\ state = StateNew /\ cloud_conn = FALSE
    /\ pc = [main |-> "m_probe", ipc |-> "t_idle", cloud |-> "c_off"]
    /\ profile = DocC
    /\ \/ \* the buttons and the keyboard
          /\ cloud_left = <<>>
          /\ buttons_left = MaxButtons /\ sigint_left = MaxInterrupts
          /\ faults = FALSE
          /\ poweroff_on_exit \in BOOLEAN
          /\ hpc \in {"h_off", "h_accept"}
       \/ \* commands from the cloud
          /\ cloud_left \in CommandDeliveries
          /\ buttons_left = 0 /\ sigint_left = 0
          /\ faults = FALSE
          /\ poweroff_on_exit \in BOOLEAN
          /\ hpc = "h_accept"
       \/ \* configuration documents from the cloud
          /\ cloud_left \in ConfigDeliveries
          /\ buttons_left = 0 /\ sigint_left = 0
          /\ faults = FALSE
          /\ poweroff_on_exit = FALSE
          /\ hpc = "h_accept"
       \/ \* a lossy radio link
          /\ cloud_left = <<Cmd("START"), Cmd("STOP")>>
          /\ buttons_left = 0 /\ sigint_left = 0
          /\ faults = TRUE
          /\ poweroff_on_exit = FALSE
          /\ hpc = "h_accept"

NextDaemon ==
    MainStep \/ IpcStep \/ c_deliver \/ update_state_step \/ TrackerStep \/ HatStep

SpecDaemon == InitDaemon /\ [][NextDaemon]_vars

(***************************************************************************)
(* The commands: the daemon has booted (line 135 has returned, the HAT     *)
(* manager has handled "LISTENING" and the first ('O1', True)); the cloud  *)
(* delivers commands, the buttons are pressed, the keyboard interrupts.    *)
(***************************************************************************)
RunCommands == {Cmd("START"), Cmd("STOP"), Cmd("TOGGLE"), Cmd("POWEROFF")}

InitCommands ==
    /\ tags = {1} /\ anchors = {<<10, <<1, 1, 1>> >>} /\ reconf = {} /\ loop_cnt = 0
    /\ check_period = 0 /\ pos_dim = 3
    /\ devlist = [t \in TagIds |-> IF t = 1 THEN {<<10, <<1, 1, 1>> >>} ELSE {}]
    /\ op = "reload" /\ tpc = "ret" /\ check_only = FALSE /\ rdoc = DocC
    /\ order = <<1>> /\ idx = 2
    /\ responses = [t \in TagIds |-> NoResponse]
    /\ telem = {} /\ confd = {1} /\ errlog = {} /\ pushfail = {} /\ events = <<>>
    /\ cfglog = [t \in TagIds |-> IF t = 1 THEN <<TRUE>> ELSE <<>>]
    /\ pushed = {1} /\ details = NoDetails /\ ncalls = 0
    /\ state = StateNew /\ cloud_conn = TRUE
    /\ pc = [main |-> "m_enter", ipc |-> "t_recv", cloud |-> "c_idle"]
    /\ ucmd = [th \in Threads |-> NoCmd]
    /\ utmp = [th \in Threads |-> FALSE]
    /\ uret = [th \in Threads |-> IF th = "main" THEN "m_enter" ELSE "-"]
    /\ pos_period = 0 /\ new_conf = NoDoc /\ has_err = FALSE /\ iter = NewIter
    /\ sleeping = NoSleep
    /\ powered_off = FALSE /\ kbint = FALSE /\ po_cmd = FALSE
    /\ exc = "none" /\ shut = <<>>
    /\ outq = <<>> /\ in_bound = TRUE /\ in_conn = "open" /\ inq = <<>>
    /\ hpc = "h_accept" /\ hard_in = "open"
    /\ lights = [l \in LedNames |-> l = "O1"]
    /\ given = NoneGiven
    /\ LockNew /\ SideNew
    /\ profile = DocC /\ poweroff_on_exit = FALSE
    /\ cloud_left \in Scripts(RunCommands, MaxCalls)
    /\ buttons_left = MaxButtons /\ sigint_left = MaxInterrupts /\ faults = FALSE

NextCommands ==
    c_deliver \/ update_state_step \/ t_chk \/ t_recv \/ m_interrupt \/ HatStep

SpecCommands == InitCommands /\ [][NextCommands]_vars

(***************************************************************************)
(* The lock step on its own: processes started with the same lock path.    *)
(***************************************************************************)
InitLock ==
    /\ TrackerNew
    /\ check_period = 0 /\ pos_dim = 3 /\ devlist = [t \in TagIds |-> {}]
    /\ DaemonNew /\ SideNew /\ state = StateNew /\ cloud_conn = FALSE
    /\ pc = [main |-> "user", ipc |-> "t_idle", cloud |-> "c_off"]
    /\ profile = NoDoc /\ poweroff_on_exit = FALSE
    /\ hpc = "h_off"
    /\ cloud_left = <<>> /\ buttons_left = 0 /\ sigint_left = 0 /\ faults = FALSE
    /\ lpc = [p \in Procs |-> "p_off"]
    /\ lock_owner = NoProc
    /\ touched = [p \in Procs |-> FALSE]
    /\ starts_left = [p \in Procs |-> MaxStarts]

NextLock ==
    \E p \in Procs : p_start(p) \/ p_open(p) \/ p_lock(p) \/ p_online(p) \/ p_run(p) \/ p_exit(p)

SpecLock == InitLock /\ [][NextLock]_vars

(***************************************************************************)
(* The lock step with the health probe: daemon processes and runs of       *)
(* update_daemon_led.py on one lock path; the HAT manager listens.         *)
(***************************************************************************)
InitProbe ==
    /\ TrackerNew
    /\ check_period = 0 /\ pos_dim = 3 /\ devlist = [t \in TagIds |-> {}]
    /\ DaemonNew /\ SideNew /\ state = StateNew /\ cloud_conn = FALSE
    /\ pc = [main |-> "user", ipc |-> "t_idle", cloud |-> "c_off"]
    /\ profile = NoDoc /\ poweroff_on_exit = FALSE
    /\ hpc = "h_accept"
    /\ cloud_left = <<>> /\ buttons_left = 0 /\ sigint_left = 0 /\ faults = FALSE
    /\ lpc = [p \in Procs \cup {Prober} |-> "p_off"]
    /\ lock_owner = NoProc
    /\ touched = [p \in Procs \cup {Prober} |-> FALSE]
    /\ starts_left = [p \in Procs \cup {Prober} |-> MaxStarts]

NextProbe ==
    \/ \E p \in Procs : p_start(p) \/ p_open(p) \/ p_lock(p) \/ p_online(p) \/ p_run(p) \/ p_exit(p)
    \/ p_start(Prober) \/ p_open(Prober) \/ q_lock \/ q_send

SpecProbe == InitProbe /\ [][NextProbe]_vars

(***************************************************************************)
(* validate_tracking_config on its own, called once on a document.         *)
(***************************************************************************)
Str0x681D == <<"0", "x", "6", "8", "1", "D">>
Str681D == <<"6", "8", "1", "D">>
Str0x7625 == <<"0", "x", "7", "6", "2", "5">>
Str7625 == <<"7", "6", "2", "5">>

\* Strings for the keys of 'anchors'.
KeyStrings ==
    {Str0x681D, Str681D, Str0xA, Str0x2, StrBad, <<"0", "x">>,
     <<"a", "0", "x", "1">>, <<"0", "x", "1", "\n">>, <<"0", "x", "\n", "1">>}

\* Values for a key of 'anchors'.
CoordValues ==
    {JArr(<<JNum(2), JNum(4), JNum(6)>>), JArr(<<JNum(2), JNum(4)>>),
     JArr(<<JNum(2), JNum(4), JNum(6), JNum(8)>>), JArr(<<JNum(2), JNum(3), JNum(6)>>),
     JArr(<<JNum(2), JNum(4), JStr(<<"3">>)>>), JStr(<<"1">>)}

AnchorsValues ==
    {Missing, JArr(<<>>), JObj({})}
    \cup {JObj({<<k, c>>}) : k \in KeyStrings, c \in CoordValues}
    \cup {JObj({<<Str0x681D, JArr(<<JNum(2), JNum(4), JNum(6)>>)>>,
                <<k, JArr(<<JNum(0), JNum(0), JNum(0)>>)>>}) : k \in {Str0xA, Str681D}}

TagsValues ==
    {Missing, JArr(<<>>), JStr(Str0x7625), JArr(<<JStr(Str0x7625)>>),
     JArr(<<JStr(Str7625)>>), JArr(<<JNum(2)>>),
     JArr(<<JStr(Str0x7625), JStr(Str0x1)>>), JArr(<<JStr(Str0x7625), JStr(Str0x7625)>>)}

IntervalValues ==
    {Missing, JNum(2), JNum(0), JNum(-2), JNum(3), JNum(4), JStr(<<"1">>), JTrue}

FloorsValues ==
    {Missing, JArr(<<>>), JObj({<<"ground", JArr(<<JStr(Str0xA)>>)>>}),
     JObj({<<"ground", JArr(<<>>)>>})}

InitValidate ==
    /\ TrackerNew
    /\ check_period = 0 /\ pos_dim = 3 /\ devlist = [t \in TagIds |-> {}]
    /\ DaemonNew /\ LockNew /\ state = StateNew /\ cloud_conn = FALSE
    /\ pc = [main |-> "user", ipc |-> "t_idle", cloud |-> "c_off"]
    /\ profile = NoDoc /\ poweroff_on_exit = FALSE
    /\ hpc = "h_off"
    /\ cloud_left = <<>> /\ buttons_left = 0 /\ sigint_left = 0 /\ faults = FALSE
    /\ vdoc \in [anchors : AnchorsValues, tags : TagsValues,
                 interval : IntervalValues, floors : FloorsValues]
    /\ verdict = "none" /\ col = ColNew

NextValidate == validate_tracking_config

SpecValidate == InitValidate /\ [][NextValidate]_vars

(***************************************************************************)
(* CloudCollector: messages arrive while the flush thread flushes.         *)
(***************************************************************************)
InitCollect ==
    /\ TrackerNew
    /\ check_period = 0 /\ pos_dim = 3 /\ devlist = [t \in TagIds |-> {}]
    /\ DaemonNew /\ LockNew /\ SideNew /\ state = StateNew /\ cloud_conn = FALSE
    /\ pc = [main |-> "user", ipc |-> "t_idle", cloud |-> "c_off"]
    /\ profile = NoDoc /\ poweroff_on_exit = FALSE
    /\ hpc = "h_off"
    /\ cloud_left = <<>> /\ buttons_left = 0 /\ sigint_left = 0 /\ faults = FALSE

NextCollect ==
    \/ on_message \/ on_message_append
    \/ flush \/ flush_split \/ flush_take \/ flush_keep \/ flush_store \/ flush_write

SpecCollect == InitCollect /\ [][NextCollect]_vars

(***************************************************************************)
(* Properties of the Tracker.                                              *)
(***************************************************************************)
\* A round of the second for loop of Tracker.loop is about to run.
Processing == op = "loop" /\ tpc = "proc" /\ idx <= Len(order)

\* C1: in loop(check_only=False), a tag that is in the reconfiguration set
\* when its result is processed and whose fix succeeded gets configure_tag,
\* leaves the set and gets no telemetry record in that call; a telemetry
\* record is emitted only for a tag whose fix succeeded and that was not in
\* the set.
C1_SelfHealing ==
    /\ [](op = "loop" => telem \cap confd = {})
    /\ [][ /\ Processing =>
               LET tag_id == order[idx]
               IN  /\ (responses[tag_id].success /\ tag_id \in reconf)
                       => /\ tag_id \in confd'
                          /\ tag_id \notin reconf'
                          /\ tag_id \notin telem'
                   /\ (telem' # telem)
                       => /\ telem' = telem \cup {tag_id}
                          /\ responses[tag_id].success
                          /\ tag_id \notin reconf
           /\ (~Processing /\ telem' # telem) => telem' = {}
         ]_vars

\* A loop call that healed one tag and published the fix of another.
C1_Witness ==
    op = "loop" /\ tpc = "ret" /\ confd # {} /\ telem # {}

\* C2: a failed positioning attempt is not fatal: localize hands back a
\* result instead of raising, every tag of the registry is polled in the
\* call, the tag of a failed fix is put in the reconfiguration set and its
\* error logged, and the call raises only out of the handling of a
\* successful fix, never of a failed one.
C2_FailureNotFatal ==
    /\ []((op = "loop" /\ ~check_only /\ tpc \in {"proc", "ret", "raised"})
            => \A t \in tags : responses[t].polled)
    /\ []((op = "loop" /\ ~check_only /\ tpc = "ret")
            => \A t \in tags : ~responses[t].success => (t \in reconf /\ t \in errlog))
    /\ [][ /\ (op = "loop" /\ tpc = "poll")
               => (tpc' \in {"poll", "proc"} /\ responses'[order[idx]].polled)
           /\ (Processing /\ ~responses[order[idx]].success)
               => /\ order[idx] \in reconf'
                  /\ order[idx] \in errlog'
                  /\ tpc' # "raised"
           /\ (op = "loop" /\ tpc # "raised" /\ tpc' = "raised")
               => (Processing /\ responses[order[idx]].success)
         ]_vars

\* A loop call over two tags that returned with one fix failed, one good.
C2_Witness ==
    /\ op = "loop" /\ tpc = "ret" /\ ~check_only
    /\ \E t, u \in tags : ~responses[t].success /\ responses[u].success

\* C3: after loop or reload_devices returns, every tag configure_tag ran
\* for has the registry's anchors on the backend or is in the
\* reconfiguration set.
C3_ConfiguredOrMarked ==
    (op \in {"loop", "reload"} /\ tpc = "ret")
        => \A t \in confd : devlist[t] = anchors \/ t \in reconf

\* The backend requests of kind k in the events of the call.
Requests(k) == {i \in 1..Len(events) : events[i][1] = k}

\* C14: a loop(check_only=False) call over N tags makes exactly N
\* positioning requests, one per tag, and the events of each tag are LED
\* on, wait, positioning request, LED off, in this order and finished
\* before the LED-on of the next tag.
C14_SerialPolling ==
    (op = "loop" /\ ~check_only /\ tpc \in {"proc", "ret", "raised"}) =>
        LET N == Cardinality(tags)
        IN  /\ Len(events) = 4 * N
            /\ Cardinality(Requests("position")) = N
            /\ \A t \in tags : \E i \in Requests("position") : events[i][2] = t
            /\ \A k \in 1..N :
                  /\ events[4 * k - 3][1] = "led_on"
                  /\ events[4 * k - 2][1] = "wait"
                  /\ events[4 * k - 1][1] = "position"
                  /\ events[4 * k][1] = "led_off"
                  /\ \A j \in (4 * k - 3)..(4 * k) : events[j][2] = events[4 * k][2]

\* A call over two tags has polled both.
C14_Witness ==
    /\ op = "loop" /\ ~check_only /\ tpc = "ret" /\ Cardinality(tags) = 2
    /\ Len(events) = 8 /\ events[1][2] # events[5][2]

ReloadReturned == op = "reload" /\ tpc = "ret"

\* reload_devices runs configure_tag for tag t.
ReloadConfigures(t) == op = "reload" /\ t \notin confd /\ t \in confd'

\* The registry is the document's, and no tag awaits reconfiguration.
RegistryReplaced ==
    /\ tags = {int16(t) : t \in rdoc.tags}
    /\ anchors = {<<int16(a[1]), a[2]>> : a \in rdoc.anchors}
    /\ reconf = {}

\* C18 as stated: when reload_devices returns, the registry is the
\* document's, the anchors were pushed to every tag of it, and the
\* reconfiguration set is empty.
C18_ForcePush ==
    ReloadReturned => RegistryReplaced /\ \A t \in tags : t \in confd /\ t \in pushed

\* C18, amended: when reload_devices returns, the registry is the
\* document's, configure_tag has run for every tag of it and for no other,
\* and the reconfiguration set is empty; a configure_tag whose requests
\* succeed pushes the anchors exactly if the tag's list differs from them.
C18_ReloadDevices ==
    [][/\ ReloadReturned' => (RegistryReplaced /\ confd = tags)'
       /\ \A t \in TagIds :
             (ReloadConfigures(t) /\ cfglog'[t] # <<>>) =>
                 (t \in pushed' <=> devlist[t] # anchors)]_vars

\* A hot reload over two tags has returned: one was pushed to, the other,
\* which held the anchors already, was not.
C18_Witness ==
    /\ ReloadReturned /\ loop_cnt > 0 /\ confd = tags /\ reconf = {}
    /\ \E t, u \in tags :
          /\ cfglog[t] # <<>> /\ t \in pushed
          /\ cfglog[u] # <<>> /\ u \notin pushed

\* check() runs in this step; details' holds what its queries returned.
CheckRuns == op = "loop" /\ tpc = "check" /\ tpc' = "count" /\ details' # NoDetails

\* C19: check() puts a tag in the reconfiguration set exactly if its
\* details query fails, or its identity byte is not 0x43, or its self-test
\* value is not 0b111111; it removes nothing from the set and adds no
\* anchor, whatever the anchors' queries return.
C19_Check ==
    [][CheckRuns =>
          LET det == details'.tag
          IN  /\ \A t \in tags :
                    t \in reconf' \ reconf <=>
                        /\ t \notin reconf
                        /\ \/ ~det[t].ok
                           \/ det[t].who_am_i # 67
                           \/ det[t].selftest # 63
              /\ reconf \subseteq reconf'
              /\ reconf' \ reconf \subseteq tags
              /\ \A a \in DOMAIN details'.anchor : a \in reconf' <=> a \in reconf]_vars

\* check() has run: a silent tag and one with a wrong self-test are in the
\* set, and an anchor that did not answer is not.
C19_Witness ==
    /\ op = "loop" /\ tpc = "count" /\ details # NoDetails
    /\ \E t, u \in tags :
          /\ ~details.tag[t].ok /\ t \in reconf
          /\ details.tag[u].ok /\ details.tag[u].selftest # TagSelftest /\ u \in reconf
    /\ \E a \in DOMAIN details.anchor : ~details.anchor[a].ok /\ a \notin reconf

\* Tracker.loop is at line 130, about to run check() or to skip it.
AtCheck == op = "loop" /\ tpc = "check" /\ tpc' = "count"

\* C20: check() runs in the loop calls whose zero-based index is a multiple
\* of check_period and in no other, never when check_period is 0; the
\* counter is the number of loop calls made, whatever reload_devices calls
\* came in between.
C20_CheckPeriod ==
    [][/\ AtCheck =>
            LET index == ncalls - 1
            IN  details' # NoDetails <=>
                    (check_period # 0 /\ index % check_period = 0)
       /\ loop_cnt' = IF op' = "loop" /\ tpc' \in {"check", "count"}
                      THEN ncalls' - 1 ELSE ncalls'
       /\ op = "reload" => loop_cnt' = loop_cnt]_vars

\* The third loop call, a check-only one, runs check() with a period of 2.
C20_Witness ==
    /\ op = "loop" /\ tpc = "count" /\ details # NoDetails /\ check_only
    /\ check_period = 2 /\ ncalls = 3 /\ loop_cnt = 2

(***************************************************************************)
(* Properties of update_state.                                             *)
(***************************************************************************)
\* Thread th takes the step that leaves position `from`, uninterrupted.
Leaves(th, from) == pc[th] = from /\ pc'[th] # from /\ kbint' = kbint

\* C4: update_state applies a command to {on, run, conf}: START sets run,
\* STOP clears run, TOGGLE negates run, POWEROFF clears run and on, a string
\* starting with '{' becomes the pending config; a command leaves the
\* fields it does not name unchanged, any other string changes no field,
\* and nothing outside the assignments of lines 78-88 changes a field.
C4_UpdateState ==
    /\ [](\A th \in Threads :
            pc[th] = "u_signal" =>
              /\ ucmd[th].text = "START" => state.run
              /\ ucmd[th].text = "STOP" => ~state.run
              /\ ucmd[th].text = "POWEROFF" => (~state.run /\ ~state.on)
              /\ ucmd[th].text = "{" => state.conf = ucmd[th].doc)
    /\ [][ /\ \A th \in Threads :
                LET text == ucmd[th].text
                IN  /\ Leaves(th, "u_apply") =>
                        IF text = "START" THEN state' = [state EXCEPT !.run = TRUE]
                        ELSE IF text \in {"STOP", "POWEROFF"}
                             THEN state' = [state EXCEPT !.run = FALSE]
                        ELSE IF text = "{" THEN state' = [state EXCEPT !.conf = ucmd[th].doc]
                        ELSE state' = state
                    /\ Leaves(th, "u_apply2") =>
                        IF text = "TOGGLE" THEN state' = [state EXCEPT !.run = ~state.run]
                        ELSE state' = [state EXCEPT !.on = FALSE]
           /\ (\A th \in Threads : pc[th] \notin {"u_apply", "u_apply2"}) => state' = state
         ]_vars

\* POWEROFF has been applied to a state with a pending config, which stays.
C4_Witness ==
    /\ pc["cloud"] = "u_signal" /\ ucmd["cloud"].text = "POWEROFF"
    /\ ~state.on /\ ~state.run /\ state.conf = DocA

(***************************************************************************)
(* Properties of the daemon.                                               *)
(***************************************************************************)
\* main is past run_track_loop.
LoopLeft ==
    \/ pc["main"] \in {"m_join", "m_disconnect", "m_poweroff", "m_end"}
    \/ pc["main"] \in {"u_apply", "u_apply2", "u_signal"} /\ uret["main"] = "m_join"

\* C5: once on is false it stays false whatever command is applied later,
\* and run_track_loop begins no iteration while on is false: the read of on
\* at the top of the loop leaves the loop, which is not entered again.
C5_OnIsTerminal ==
    [][ /\ ~state.on => ~state'.on
        /\ (~state.on /\ pc'["main"] = "m_chk_conf") => pc["main"] = "m_chk_conf"
        /\ (~state.on /\ Leaves("main", "m_top")) => pc'["main"] = "m_join"
        /\ LoopLeft => pc'["main"] \notin LoopPcs
      ]_vars

\* START was applied after POWEROFF: run is true, on stayed false, and the
\* main thread has left the loop.
C5_Witness ==
    /\ ~state.on /\ state.run /\ po_cmd
    /\ pc["main"] \in {"m_join", "m_disconnect", "m_poweroff", "m_end"}

\* The document satisfies the profile schema as far as the daemon uses it.
SchemaOk(d) ==
    /\ d.json /\ AllKeys \subseteq d.keys
    /\ \A t \in d.tags : IsHex(t)
    /\ \A a \in d.anchors : IsHex(a[1])

\* The positions of an iteration of run_track_loop that runs the normal loop.
NormalPcs == {"m_g1", "m_loop", "m_loop_wait", "m_r1", "m_sleep", "m_sleeping"}

\* C6: a config document (one that satisfies the schema) that becomes
\* pending while an iteration is past its top-of-loop check changes neither
\* the registry nor the period of that iteration and stays pending; the
\* next iteration reads it, takes its period, calls reload_devices with it,
\* clears the pending config and goes back to the top of the loop without a
\* positioning pass.
C6_HotReload ==
    /\ [](iter.reload => ~iter.pass)
    /\ [][ /\ pc["main"] \in NormalPcs =>
                /\ tags' = tags /\ anchors' = anchors /\ pos_period' = pos_period
                /\ state.conf # NoDoc => state'.conf # NoDoc
           /\ (Leaves("main", "m_top") /\ state.on) => pc'["main"] = "m_chk_conf"
           /\ (Leaves("main", "m_chk_conf") /\ state.conf # NoDoc) => pc'["main"] = "m_load"
           /\ (Leaves("main", "m_load") /\ SchemaOk(state.conf)) =>
                (new_conf' = state.conf /\ pc'["main"] = "m_period")
           /\ (Leaves("main", "m_period") /\ SchemaOk(new_conf)) =>
                (pos_period' = new_conf.interval /\ pc'["main"] = "m_reload")
           /\ Leaves("main", "m_reload") =>
                (op' = "reload" /\ rdoc' = new_conf /\ pc'["main"] = "m_reload_wait")
           /\ (Leaves("main", "m_reload_wait") /\ SchemaOk(new_conf)) =>
                (pc'["main"] = "m_clear" /\ tags = {int16(t) : t \in new_conf.tags})
           /\ Leaves("main", "m_clear") =>
                (state'.conf = NoDoc /\ pc'["main"] = "m_top" /\ ~iter.pass)
         ]_vars

\* DocB arrived after a pass of the normal loop and has been reloaded.
C6_Witness ==
    /\ pc["main"] = "m_top" /\ iter.reload /\ loop_cnt >= 1
    /\ new_conf = DocB /\ state.conf = NoDoc /\ pos_period = DocB.interval
    /\ tags = {int16(t) : t \in DocB.tags}
    /\ anchors = {<<int16(a[1]), a[2]>> : a \in DocB.anchors}

\* C7: the pending config is consumed atomically: a document is cleared
\* from the pending config only if it is the document that was passed to
\* reload_devices, so that no document is discarded unapplied.
C7_ConfigConsumedAtomically ==
    [][(state.conf # NoDoc /\ state'.conf = NoDoc) => (state.conf = new_conf /\ state.conf = rdoc)]_vars

\* The exceptions an invalid document raises in lines 56-58.
ConfigErrors == {"JSONDecodeError", "KeyError", "ReloadError"}

\* Registry and period are those of document d.
Applied(d) ==
    /\ tags = {int16(t) : t \in d.tags}
    /\ anchors = {<<int16(a[1]), a[2]>> : a \in d.anchors}
    /\ pos_period = d.interval

\* The positions past line 47 at which lines 56-58 are not in progress.
SettledPcs == {"m_top", "m_chk_conf", "m_load", "m_clear", "m_join", "m_disconnect",
               "m_poweroff", "m_end"} \cup NormalPcs

\* C8: an invalid pending config document never ends run_track_loop and is
\* never partially applied: whenever lines 56-58 are not in progress, the
\* tags, the anchors and the period are all those of one valid document.
C8_InvalidConfigHarmless ==
    /\ exc \notin ConfigErrors
    /\ (pc["main"] \in SettledPcs /\ pos_period # 0)
          => \E d \in {profile, DocA, DocB} : Applied(d)

\* The shutdown sequence of the daemon.
ShutdownOrder == <<"on_false", "poweroff_sent", "joined", "disconnected">>

IsPrefix(s, t) == Len(s) <= Len(t) /\ \A i \in 1..Len(s) : s[i] = t[i]

\* A POWEROFF command came, or a KeyboardInterrupt in the main loop, and
\* the daemon did not give up at start-up for want of a Pozyx device.
Triggered == (po_cmd \/ kbint) /\ pc["main"] # "m_exit"

\* C9: after a POWEROFF command or a KeyboardInterrupt the daemon sets on
\* to false, sends "POWEROFF" to the HAT manager, joins the listener
\* thread and disconnects the cloud client, in this order, and does not
\* stop before it has done all four: the join returns.
C9_OrderlyShutdown ==
    Triggered => /\ IsPrefix(shut, ShutdownOrder)
                 /\ shut = ShutdownOrder \/ ENABLED NextDaemon

\* C10: the system poweroff is invoked only when a POWEROFF command caused
\* the shutdown, never after a KeyboardInterrupt alone.
C10_PoweroffOnlyOnCommand == powered_off => po_cmd

\* C12: a send of the daemon on the out channel while the HAT manager
\* does not listen (the probe of lines 107-112, the LED sends of
\* run_track_loop, the signal of update_state) raises nothing out of the
\* sending code and does not end the daemon: main does not return at the
\* probe, does not die in update_state, and run_track_loop is not left on a
\* ConnectionRefusedError.
C12_SendWithoutListener ==
    /\ ~(pc["main"] = "m_exit" /\ pc["ipc"] = "t_idle")
    /\ pc["main"] # "m_crashed"
    /\ exc # "ConnectionRefusedError"

\* C13: the boot sequence sets run to false and signals it to the HAT
\* manager before the first iteration, whatever was applied during
\* start-up; run becomes true only by a START or a TOGGLE; while run is
\* false tracker.loop is called with check_only, and such a call makes no
\* positioning request, toggles no tag LED and emits no telemetry.
C13_StartsPaused ==
    /\ []((op = "loop" /\ check_only)
            => /\ events = <<>> /\ telem = {}
               /\ \A t \in TagIds : ~responses[t].polled)
    /\ [][ /\ (Leaves("main", "u_apply") /\ ucmd["main"].text = "STOP") => ~state'.run
           /\ (pc["main"] # "m_enter" /\ pc'["main"] = "m_enter")
                => /\ pc["main"] = "u_signal" /\ ucmd["main"].text = "STOP"
                   /\ outq' = Append(outq, <<Led("O1", ~state.run)>>)
           /\ (~state.run /\ state'.run)
                => \E th \in Threads : /\ pc[th] \in {"u_apply", "u_apply2"}
                                       /\ ucmd[th].text \in {"START", "TOGGLE"}
           /\ Leaves("main", "m_loop") => (op' = "loop" /\ check_only' = ~state.run)
         ]_vars

\* START was applied during start-up, before the STOP of the boot
\* sequence: the first pass of the main loop was check-only.
C13_Witness ==
    /\ cloud_left = <<Cmd("POWEROFF")>> /\ pc["cloud"] = "c_idle" /\ ~state.run
    /\ pc["main"] = "m_loop_wait" /\ op = "loop" /\ check_only /\ tpc = "ret"

\* The positioning period in force: the interval of the document applied
\* last, or of the start-up configuration when none was.
PeriodInForce == IF new_conf = NoDoc THEN profile.interval ELSE new_conf.interval

\* C16: in a normal iteration of run_track_loop, with P the period in force
\* and E the measured duration of the iteration, the sleep requested is
\* P - E when E < P and 0 when E >= P, and it is never negative.
C16_SleepTime ==
    sleeping.on =>
        /\ ~iter.reload
        /\ sleeping.time =
               IF sleeping.elapsed < PeriodInForce
               THEN PeriodInForce - sleeping.elapsed ELSE 0
        /\ sleeping.time >= 0

\* A reloaded period is in force, and the iteration took longer than it.
C16_Witness ==
    /\ sleeping.on /\ pc["main"] = "m_sleeping"
    /\ new_conf = DocA /\ profile = DocC
    /\ sleeping.elapsed > DocA.interval /\ sleeping.time = 0

\* The in-channel listener of the daemon has been created.
ListenerExisted == pc["ipc"] \notin {"t_idle", "t_bind"}

\* run_hard_in sends "LISTENING".
EmitsListening == pc["ipc"] = "t_listening" /\ pc'["ipc"] = "t_accept"

\* The HAT manager handles the message at the head of its connection.
HatHandles(k) ==
    /\ hpc = "h_recv" /\ outq # <<>> /\ Head(outq) # <<>>
    /\ Head(Head(outq)).k = k
    /\ <<outq, hatVars>>' # <<outq, hatVars>>

\* C17: "LISTENING" is sent only once the in-channel listener is bound; the
\* HAT manager connects to the in channel only when it handles "LISTENING",
\* so never before a listener existed; and a button command enters the in
\* channel only over that connection, after the daemon announced itself.
C17_Handshake ==
    [][/\ EmitsListening => in_bound
       /\ (hard_in' # hard_in /\ hard_in' = "open") =>
              HatHandles("LISTENING") /\ ListenerExisted
       /\ HatHandles("LISTENING") => ListenerExisted
       /\ Len(inq') > Len(inq) =>
              /\ hard_in = "open" /\ in_conn = "open"
              /\ pc["ipc"] \notin {"t_idle", "t_bind", "t_listening"}]_vars

\* A button command waits in the in channel, sent after the handshake.
C17_Witness ==
    /\ hard_in = "open" /\ in_bound /\ inq # <<>>
    /\ pc["ipc"] \in {"t_accept", "t_chk", "t_recv"}

PastLock(p) == lpc[p] \in {"p_online", "p_run"}

\* C11: of the daemon processes started with one lock path at most one is
\* past the lock step at any time; a process that does not get the lock
\* ends without having made a cloud client, a Tracker or an IPC socket; and
\* the process that got the lock holds it until it ends.
C11_SingleInstance ==
    /\ [](\A p, q \in Procs : (PastLock(p) /\ PastLock(q)) => p = q)
    /\ [](\A p \in Procs : PastLock(p) => lock_owner = p)
    /\ [](\A p \in Procs : touched[p] => lock_owner = p)
    /\ [][\A p \in Procs :
            /\ (lpc[p] = "p_lock" /\ lock_owner \notin {NoProc, p} /\ lpc'[p] # "p_lock")
                  => (lpc'[p] = "p_off" /\ ~touched'[p] /\ lock_owner' = lock_owner)
            /\ (lock_owner = p /\ lock_owner' # p) => (PastLock(p) /\ lpc'[p] = "p_off")
       ]_vars

\* The second process reaches the lock step while the first, which holds
\* the lock, is running.
C11_Witness ==
    /\ lpc[1] = "p_run" /\ touched[1] /\ lock_owner = 1
    /\ lpc[2] = "p_lock"

(***************************************************************************)
(* Properties of validate_tracking_config.                                 *)
(***************************************************************************)
\* The string is 0x or 0X and then hexadecimal digits, as Python's re takes
\* it: a newline may follow the last digit.
HexString(str) ==
    /\ Len(str) >= 3
    /\ SubSeq(str, 1, 2) \in {<<"0", "x">>, <<"0", "X">>}
    /\ str[3] \in HexChars
    /\ \A i \in 4..Len(str) : str[i] \in HexChars \/ (i = Len(str) /\ str[i] = "\n")

Integer(v) == v.t = "number" /\ \E k \in -8..8 : v.n = 2 * k

\* The document of the claim: anchor 0x681D, tag 0x7625, interval 1.
Doc681D ==
    [anchors |-> JObj({<<Str0x681D, JArr(<<JNum(2), JNum(4), JNum(6)>>)>>}),
     tags |-> JArr(<<JStr(Str0x7625)>>), interval |-> JNum(2), floors |-> Missing]

LoopRaised == exc # "none" /\ ~kbint /\ pc["main"] # "m_crashed"

\* C25: if run_track_loop exits on an exception other than KeyboardInterrupt
\* while on is still true, the join on the listener thread returns and the
\* daemon disconnects the cloud client and terminates: no run stops for
\* good before main has ended.
C25_JoinReturns ==
    (LoopRaised /\ state.on) => (pc["main"] = "m_end" \/ ENABLED NextDaemon)

\* The daemon has sent "POWEROFF" on the out channel (line 93).
PoweroffSent == \E i \in DOMAIN shut : shut[i] = "poweroff_sent"

\* Where a thread is about to call Client(addr_out): lines 34, 63, 70, 90.
SendPcs == {"t_listening", "m_g1", "m_r1", "u_signal"}

\* C26: after the daemon has sent "POWEROFF" on the out channel no thread
\* of it connects to, or sends on, that channel again; an iteration of the
\* main loop that is in progress sends no ('R1', ...) or ('G1', ...).
C26_SilentAfterPoweroff ==
    [][PoweroffSent => \A th \in Threads : pc[th] \in SendPcs => pc'[th] = pc[th]]_vars

\* The HAT manager takes "POWEROFF" off the connection it is serving.
HandlesPoweroff ==
    /\ hpc = "h_recv" /\ Head(outq) # <<>>
    /\ Head(Head(outq)).k = "POWEROFF"
    /\ hpc' # hpc

\* C27: whenever the HAT manager handles "POWEROFF" it has handled
\* "LISTENING" before, so the in-channel connection it closes exists.
C27_ListeningFirst ==
    [][HandlesPoweroff => hard_in # "unset"]_vars

\* C29: Tracker.loop handles a successful fix without raising for both
\* positioning dimensionalities: the successful fix of a healthy tag yields
\* one telemetry record, in 2D as in 3D, and the call goes on.
C29_AnyDimension ==
    [][Processing =>
          LET tag_id == order[idx]
          IN  (responses[tag_id].success /\ tag_id \notin reconf)
                  => (tpc' # "raised" /\ telem' = telem \cup {tag_id})]_vars

(***************************************************************************)
(* Properties of concurrent commands.                                      *)
(***************************************************************************)
\* No thread is inside update_state, and none has ended inside it.
InUpdate(th) == pc[th] \in {"u_apply", "u_apply2", "u_signal"}

CallsCompleted ==
    /\ \A th \in Threads : ~InUpdate(th)
    /\ pc["ipc"] # "t_dead" /\ pc["cloud"] # "c_dead" /\ pc["main"] # "m_crashed"

\* C23: no TOGGLE is lost when the listener thread and the cloud callback
\* apply TOGGLE commands concurrently: after n TOGGLE commands and no other
\* command that assigns run, run is its initial value (False) negated n times.
C23_NoToggleLost ==
    (CallsCompleted /\ ~given.others) => (state.run = (given.toggles % 2 = 1))

\* The HAT manager has handled every message sent to it.
AllHandled ==
    \/ hpc = "h_accept" /\ outq = <<>>
    \/ hpc = "h_blink" /\ outq = << <<>> >>

\* C24: once every update_state call has completed and the HAT manager has
\* handled every message, the last ('O1', v) it handled has v = not run.
C24_PausedIndicator ==
    (CallsCompleted /\ AllHandled) => (lights["O1"] = ~state.run)

\* Commands of two threads have been applied and handled, and run is True.
C24_Witness ==
    /\ CallsCompleted /\ AllHandled
    /\ cloud_left = <<>> /\ buttons_left = 0 /\ inq = <<>>
    /\ given.toggles + (IF given.others THEN 1 ELSE 0) >= 2
    /\ state.run /\ ~lights["O1"]

(***************************************************************************)
(* Properties of the health probe.                                         *)
(***************************************************************************)
\* The probe finds the lock free exactly when no daemon holds it, and sends
\* ('R2', True) exactly when it found the lock free.
ProbeReports ==
    [][/\ (lpc[Prober] = "p_lock" /\ lpc'[Prober] # "p_lock") =>
              (lpc'[Prober] = "q_on" <=> lock_owner \notin Procs)
       /\ (lpc[Prober] \in {"q_on", "q_off"} /\ lpc'[Prober] = "p_off") =>
              outq'[Len(outq')] = <<Led("R2", lpc[Prober] = "q_on")>>]_vars

\* C28: a daemon that is starting exits at the lock step only when another
\* daemon process holds the lock, never because of a run of the probe; and
\* the probe sends ('R2', True) exactly when no daemon holds the lock.
C28_ProbeHarmless ==
    /\ [][\A p \in Procs :
            (lpc[p] = "p_lock" /\ lpc'[p] = "p_off") => lock_owner \in Procs \ {p}]_vars
    /\ ProbeReports

(***************************************************************************)
(* Properties of CloudCollector.                                           *)
(***************************************************************************)
Count(m, seq) == Cardinality({i \in DOMAIN seq : seq[i] = m})

\* C30: under any interleaving of on_message with flush, every message
\* delivered to on_message is either still in the buffer of its
\* subscription or has been written to the CSV exactly once: once both
\* calls have returned, none is lost and none is written twice.
C30_NoMessageLost ==
    (col.opc = "idle" /\ col.fpc = "idle") =>
        \A m \in 1..col.sent : Count(m, col.lists[col.cur]) + Count(m, col.csv) = 1

====
